---- MODULE Spec2Model ----
(***************************************************************************)
(* Model of the quiz backend: the topic phase (orchestrateQuiz), the       *)
(* question-generation phase (generateQuizFromTopics and                   *)
(* generateQuizAutomatically), the read boundary (getQuizById) and the     *)
(* pure normalizer (normalizeTopics), over a store of Quiz and Topic rows. *)
(*                                                                         *)
(* Text is modelled by what the code does with it: a string is a sequence  *)
(* of atoms, an atom being an indivisible piece of text of known length.   *)
(* Concatenation is sequence concatenation, length is the sum of the atom  *)
(* lengths, equality is equality of the atom sequences.                    *)
(***************************************************************************)
EXTENDS Integers, Sequences, FiniteSets, TLC

---------------------------------------------------------------------------
(* Text *)

\* An indivisible piece of text: kind k, number n, length len.
Atom(k, n, len) == [k |-> k, n |-> n, len |-> len]

\* A string literal of the source, e.g. ' / ' or '...'.
Lit(name, len) == <<Atom(name, 0, len)>>

\* The sum of the lengths of the atoms of s, halving s.
RECURSIVE SumLen(_)
SumLen(s) ==
    IF s = <<>> THEN 0
    ELSE IF Len(s) = 1 THEN s[1].len
    ELSE SumLen(SubSeq(s, 1, Len(s) \div 2))
         + SumLen(SubSeq(s, (Len(s) \div 2) + 1, Len(s)))

\* String.length of a text.
StrLen(text) == SumLen(text)

\* Number of decimal digits of a positive integer (template literal `${n}`).
Digits(n) == IF n < 10 THEN 1 ELSE IF n < 100 THEN 2 ELSE 3

\* Array.prototype.join over a list of texts.
RECURSIVE Join(_, _)
Join(list, sep) ==
    IF list = <<>> THEN <<>>
    ELSE IF Len(list) = 1 THEN list[1]
    ELSE list[1] \o sep \o Join(Tail(list), sep)

\* An optional value (undefined / null): <<>> is absent, <<v>> is v. An absent
\* text is the empty sequence as well: every text the code stores in an
\* optional field is non-empty, and the code tests such fields for truthiness.
Undefined == <<>>
Some(v) == <<v>>

---------------------------------------------------------------------------
(* Normalizer: src/unnamed/part_005 *)

MergeThreshold == 300
MaxTopicTokens == 8000
MaxTopics == 50
SummaryMinLen == 100
SummaryMaxLen == 200

\* estimateTokens: Math.ceil(text.length / 4), on the length of the text.
estimateTokens(textLength) == (textLength + 3) \div 4

\* getContentLength: content.join(' ').length; content is a list of paragraphs
\* (atoms).
getContentLength(content) ==
    IF content = <<>> THEN 0 ELSE SumLen(content) + (Len(content) - 1)

\* getTopicTokenEstimate: `${topic.title} ${topic.content.join(' ')}`.
getTopicTokenEstimate(topic) ==
    estimateTokens(StrLen(topic.title) + 1 + getContentLength(topic.content))

RawTopic(title, level, content) ==
    [title |-> title, level |-> level, content |-> content]

\* Title of the chunk pushed when `chunks` already holds n chunks.
ChunkTitle(topic, n) ==
    IF n = 0 THEN topic.title
    ELSE topic.title \o <<Atom("part", n + 1, 8 + Digits(n + 1))>>

\* The for-loop of splitTopic from paragraph k on.
RECURSIVE SplitLoop(_, _, _, _, _, _)
SplitLoop(topic, chunkSize, k, chunks, currentChunk, currentLength) ==
    IF k > Len(topic.content)
    THEN IF Len(currentChunk) > 0
         THEN Append(chunks,
                     RawTopic(ChunkTitle(topic, Len(chunks)), topic.level,
                              currentChunk))
         ELSE chunks
    ELSE LET paragraph == topic.content[k]
             flush == currentLength + paragraph.len > chunkSize
                      /\ Len(currentChunk) > 0
             chunks1 == IF flush
                        THEN Append(chunks,
                                    RawTopic(ChunkTitle(topic, Len(chunks)),
                                             topic.level, currentChunk))
                        ELSE chunks
             cur1 == IF flush THEN <<>> ELSE currentChunk
             len1 == IF flush THEN 0 ELSE currentLength
         IN SplitLoop(topic, chunkSize, k + 1, chunks1,
                      Append(cur1, paragraph), len1 + paragraph.len)

splitTopic(topic, maxTokens) ==
    IF getTopicTokenEstimate(topic) <= maxTokens THEN <<topic>>
    ELSE LET chunkSize == (maxTokens * 4 * 8) \div 10
             chunks == SplitLoop(topic, chunkSize, 1, <<>>, <<>>, 0)
         IN IF Len(chunks) > 0 THEN chunks ELSE <<topic>>

\* Mutation of MergeSmall: a short topic is merged into the first topic kept.
RECURSIVE MergeSmallIntoFirst(_, _, _)
MergeSmallIntoFirst(rawTopics, i, normalized) ==
    IF i > Len(rawTopics) THEN normalized
    ELSE LET topic == rawTopics[i]
         IN IF getContentLength(topic.content) < MergeThreshold
               /\ Len(normalized) > 0
            THEN MergeSmallIntoFirst(
                   rawTopics, i + 1,
                   [normalized EXCEPT
                      ![1].content = normalized[1].content \o topic.content])
            ELSE MergeSmallIntoFirst(rawTopics, i + 1,
                                     Append(normalized, topic))

\* Step 1 of normalizeTopics: merge topics shorter than 300 chars into the
\* previous one.
RECURSIVE MergeSmall(_, _, _)
MergeSmall(rawTopics, i, normalized) ==
    IF i > Len(rawTopics) THEN normalized
    ELSE LET topic == rawTopics[i]
             n == Len(normalized)
         IN IF getContentLength(topic.content) < MergeThreshold /\ n > 0
            THEN LET previous == normalized[n]
                     merged ==
                       [previous EXCEPT
                          !.content = previous.content \o topic.content,
                          !.title = IF previous.title # topic.title
                                    THEN previous.title \o Lit(" / ", 3)
                                         \o topic.title
                                    ELSE previous.title]
                 IN MergeSmall(rawTopics, i + 1,
                               [normalized EXCEPT ![n] = merged])
            ELSE MergeSmall(rawTopics, i + 1, Append(normalized, topic))

\* Step 2: split every topic above the token budget.
RECURSIVE SplitLarge(_)
SplitLarge(normalized) ==
    IF normalized = <<>> THEN <<>>
    ELSE splitTopic(Head(normalized), MaxTopicTokens)
         \o SplitLarge(Tail(normalized))

\* Array.prototype.sort with the comparator of step 3: ascending by content
\* length, and stable, so topics of equal length keep their order. The place
\* of the i-th topic is one more than the number of topics sorted before it.
SortRank(keys, i) ==
    1 + Cardinality({j \in 1..Len(keys) :
                       keys[j] < keys[i] \/ (keys[j] = keys[i] /\ j < i)})

SortByContentLength(list) ==
    LET keys == [i \in 1..Len(list) |-> getContentLength(list[i].content)]
    IN [p \in 1..Len(list) |->
          list[CHOOSE i \in 1..Len(list) : SortRank(keys, i) = p]]

\* Mutation of MergeInto: the titles are joined, the content is not appended.
RECURSIVE MergeIntoTitleOnly(_, _)
MergeIntoTitleOnly(firstToKeep, toMerge) ==
    IF toMerge = <<>> THEN firstToKeep
    ELSE LET smallTopic == Head(toMerge)
         IN MergeIntoTitleOnly([firstToKeep EXCEPT
                                  !.title = firstToKeep.title \o Lit(" / ", 3)
                                            \o smallTopic.title],
                               Tail(toMerge))

\* The loop merging every topic of toMerge into firstToKeep.
RECURSIVE MergeInto(_, _)
MergeInto(firstToKeep, toMerge) ==
    IF toMerge = <<>> THEN firstToKeep
    ELSE LET smallTopic == Head(toMerge)
         IN MergeInto([firstToKeep EXCEPT
                         !.content = firstToKeep.content \o smallTopic.content,
                         !.title = firstToKeep.title \o Lit(" / ", 3)
                                   \o smallTopic.title],
                      Tail(toMerge))

\* Step 3: cap the number of topics to 50.
CapTopics(normalized) ==
    IF Len(normalized) > MaxTopics
    THEN LET sorted == SortByContentLength(normalized)
             cut == Len(normalized) - MaxTopics
             toMerge == SubSeq(sorted, 1, cut)
             toKeep == SubSeq(sorted, cut + 1, Len(sorted))
         IN IF Len(toKeep) > 0 /\ Len(toMerge) > 0
            THEN [toKeep EXCEPT ![1] = MergeInto(toKeep[1], toMerge)]
            ELSE toKeep
    ELSE normalized

\* Mutation of PopStack: only the entries of a greater level are popped.
RECURSIVE PopStackKeepsEqual(_, _)
PopStackKeepsEqual(levelStack, level) ==
    IF Len(levelStack) > 0 /\ levelStack[Len(levelStack)].level > level
    THEN PopStackKeepsEqual(SubSeq(levelStack, 1, Len(levelStack) - 1), level)
    ELSE levelStack

\* The while-loop of step 4: pop the entries whose level >= the topic's.
RECURSIVE PopStack(_, _)
PopStack(levelStack, level) ==
    IF Len(levelStack) > 0 /\ levelStack[Len(levelStack)].level >= level
    THEN PopStack(SubSeq(levelStack, 1, Len(levelStack) - 1), level)
    ELSE levelStack

\* The summary of step 4: the first paragraph cut to 200 chars.
TopicSummary(content) ==
    IF Len(content) > 0 /\ content[1].len > SummaryMinLen
    THEN IF content[1].len > SummaryMaxLen
         THEN <<Atom("sub", content[1].n, SummaryMaxLen)>> \o Lit("...", 3)
         ELSE <<Atom("sub", content[1].n, content[1].len)>>
    ELSE Undefined

\* Step 4: parentIndex from the level stack. Indices are 0-based as in the
\* source.
RECURSIVE BuildHierarchy(_, _, _, _)
BuildHierarchy(normalized, i, levelStack, result) ==
    IF i >= Len(normalized) THEN result
    ELSE LET topic == normalized[i + 1]
             stack == PopStack(levelStack, topic.level)
             parentIndex == IF Len(stack) > 0
                            THEN Some(stack[Len(stack)].index)
                            ELSE Undefined
         IN BuildHierarchy(
              normalized, i + 1,
              Append(stack, [level |-> topic.level, index |-> i]),
              Append(result,
                     [title |-> topic.title,
                      summary |-> TopicSummary(topic.content),
                      level |-> topic.level,
                      parentIndex |-> parentIndex,
                      content |-> topic.content,
                      tokenEstimate |-> getTopicTokenEstimate(topic)]))

normalizeTopics(rawTopics) ==
    IF Len(rawTopics) = 0 THEN <<>>
    ELSE BuildHierarchy(CapTopics(SplitLarge(MergeSmall(rawTopics, 1, <<>>))),
                        0, <<>>, <<>>)

---------------------------------------------------------------------------
(* Completion retrier: src/src/utils/retry.ts *)

DefaultMaxRetries == 3
DefaultBaseDelayMs == 1000

\* Mutation of Pow2: the exponent is doubled.
Pow2AsDouble(n) == 2 * n

\* Math.pow(2, n)
RECURSIVE Pow2(_)
Pow2(n) == IF n = 0 THEN 1 ELSE 2 * Pow2(n - 1)

\* Mutation of RetryLoop: when every invocation fails, the error of the first
\* invocation is raised.
RECURSIVE RetryLoopFirstError(_, _, _, _, _)
RetryLoopFirstError(outcomes, maxRetries, baseDelayMs, attempt, delays) ==
    LET outcome == outcomes[attempt + 1]
    IN IF outcome.ok
       THEN [ok |-> TRUE, value |-> outcome.value, calls |-> attempt + 1,
             delays |-> delays]
       ELSE IF attempt = maxRetries
            THEN [ok |-> FALSE, error |-> outcomes[1].error,
                  calls |-> attempt + 1, delays |-> delays]
            ELSE RetryLoopFirstError(outcomes, maxRetries, baseDelayMs,
                                     attempt + 1,
                                     Append(delays, baseDelayMs * Pow2(attempt)))

\* The for-loop of retryWithBackoff from `attempt` on. outcomes[k] is what the
\* k-th invocation of fn settles to: [ok |-> TRUE, value |-> v] or
\* [ok |-> FALSE, error |-> e]. The result records the invocations made and
\* the delays waited.
RECURSIVE RetryLoop(_, _, _, _, _)
RetryLoop(outcomes, maxRetries, baseDelayMs, attempt, delays) ==
    LET outcome == outcomes[attempt + 1]
    IN IF outcome.ok
       THEN [ok |-> TRUE, value |-> outcome.value, calls |-> attempt + 1,
             delays |-> delays]
       ELSE IF attempt = maxRetries
            THEN [ok |-> FALSE, error |-> outcome.error, calls |-> attempt + 1,
                  delays |-> delays]
            ELSE RetryLoop(outcomes, maxRetries, baseDelayMs, attempt + 1,
                           Append(delays, baseDelayMs * Pow2(attempt)))

retryWithBackoff(outcomes, maxRetries, baseDelayMs) ==
    RetryLoop(outcomes, maxRetries, baseDelayMs, 0, <<>>)

---------------------------------------------------------------------------
(* Topic quiz generator: src/unnamed/part_007 *)

\* A JSON number num/den, and a JSON string.
JsonNumber(num, den) == [type |-> "number", num |-> num, den |-> den]
JsonString(text) == [type |-> "string", text |-> text]

\* Number.isInteger
IsInteger(j) == j.type = "number" /\ j.num % j.den = 0

\* Whitespace is an atom of kind "ws"; every other atom starts and ends with a
\* visible character. String.prototype.trim:
RECURSIVE TrimLeft(_)
TrimLeft(text) ==
    IF text # <<>> /\ Head(text).k = "ws" THEN TrimLeft(Tail(text)) ELSE text

RECURSIVE TrimRight(_)
TrimRight(text) ==
    IF text # <<>> /\ text[Len(text)].k = "ws"
    THEN TrimRight(SubSeq(text, 1, Len(text) - 1)) ELSE text

Trim(text) == TrimRight(TrimLeft(text))

\* topicQuizResponseSchema on one element of `questions`.
TopicQuestionSchemaOk(q) ==
    /\ StrLen(q.question) >= 1
    /\ Len(q.options) = 4
    /\ \A o \in 1..Len(q.options) : StrLen(q.options[o]) >= 1
    /\ q.answerIndex.type = "number"
    /\ IsInteger(q.answerIndex)
    /\ q.answerIndex.num \div q.answerIndex.den >= 0
    /\ q.answerIndex.num \div q.answerIndex.den <= 3

\* topicQuizResponseSchema.parse on a parsed object.
topicQuizResponseSchema(parsed) ==
    /\ Len(parsed.questions) >= 2
    /\ Len(parsed.questions) <= 4
    /\ \A i \in 1..Len(parsed.questions) :
         TopicQuestionSchemaOk(parsed.questions[i])

\* The checks of the map callback after the schema, on one question.
TopicQuestionExtraOk(q) ==
    \A o \in 1..Len(q.options) : StrLen(Trim(q.options[o])) > 0

\* The MCQ the map callback returns.
ValidatedQuestion(q) ==
    [question |-> Trim(q.question),
     options |-> [o \in 1..Len(q.options) |-> Trim(q.options[o])],
     answerIndex |-> q.answerIndex.num \div q.answerIndex.den]

\* One invocation of the function generateQuizForTopic hands to
\* retryWithBackoff, on the completion `response`: a failed call
\* (kind "error"), text that is no JSON (kind "text"), or a JSON object
\* (kind "json").
TopicQuizAttempt(response) ==
    IF response.kind = "error"
    THEN [ok |-> FALSE, error |-> "No content received"]
    ELSE IF response.kind = "text"
    THEN [ok |-> FALSE, error |-> "Failed to parse JSON response"]
    ELSE IF ~topicQuizResponseSchema(response.parsed)
    THEN [ok |-> FALSE, error |-> "Topic quiz validation failed"]
    ELSE IF \E i \in 1..Len(response.parsed.questions) :
              ~TopicQuestionExtraOk(response.parsed.questions[i])
    THEN [ok |-> FALSE, error |-> "Failed to generate quiz for topic"]
    ELSE [ok |-> TRUE,
          value |-> [i \in 1..Len(response.parsed.questions) |->
                       ValidatedQuestion(response.parsed.questions[i])]]

\* generateQuizForTopic, given the completions its successive calls receive.
generateQuizForTopic(responses) ==
    retryWithBackoff([k \in 1..Len(responses) |-> TopicQuizAttempt(responses[k])],
                     DefaultMaxRetries, DefaultBaseDelayMs)

\* Mutation of QuestionsOrEmpty: a rejected call contributes one question.
QuestionsOrPlaceholder(result) ==
    IF result.ok THEN result.value
    ELSE <<[question |-> <<>>, options |-> <<>>, answerIndex |-> 0]>>

\* The try/catch callers wrap around generateQuizForTopic: the questions, or
\* an empty list when it rejects.
QuestionsOrEmpty(result) == IF result.ok THEN result.value ELSE <<>>

---------------------------------------------------------------------------
(* Base quiz generator: src/src/services/quiz-generator.service.ts *)

\* JSON null or a missing field (undefined), and a JSON boolean.
JsonNull == [type |-> "null"]
JsonBoolean == [type |-> "boolean"]

\* parseInt(text.trim(), 10): a text that starts with digits (an atom of kind
\* "int", of value n) parses to n whatever follows; any other text is NaN
\* (absent).
ParseInt(text) ==
    LET trimmed == Trim(text)
    IN IF trimmed # <<>> /\ trimmed[1].k = "int" THEN Some(trimmed[1].n)
       ELSE Undefined

\* The map callback that normalizes answerIndex: null and undefined become 0,
\* a number is floored, a string that parses becomes the parsed number, and
\* anything else is left as it is.
NormalizeAnswerIndex(q) ==
    IF q.answerIndex.type = "null"
    THEN [q EXCEPT !.answerIndex = JsonNumber(0, 1)]
    ELSE IF q.answerIndex.type = "number"
    THEN [q EXCEPT !.answerIndex =
                      JsonNumber(q.answerIndex.num \div q.answerIndex.den, 1)]
    ELSE IF q.answerIndex.type = "string"
            /\ ParseInt(q.answerIndex.text) # Undefined
    THEN [q EXCEPT !.answerIndex = JsonNumber(ParseInt(q.answerIndex.text)[1], 1)]
    ELSE q

\* The body of the validation loop on one normalized question: the message of
\* the error it throws, or "none". The second conversion of a string
\* answerIndex never applies: a string that parses was converted by the
\* normalization.
FlatQuestionError(question) ==
    IF question.question.type # "string" \/ question.question.text = <<>>
    THEN "text is missing or invalid"
    ELSE IF Len(question.options) # 4
    THEN "must have exactly 4 options"
    ELSE IF \E o \in 1..4 : \/ question.options[o].type # "string"
                            \/ StrLen(Trim(question.options[o].text)) = 0
    THEN "options must all be non-empty strings"
    ELSE IF question.answerIndex.type # "number"
    THEN "answerIndex must be a number"
    ELSE IF \/ question.answerIndex.num \div question.answerIndex.den < 0
            \/ question.answerIndex.num \div question.answerIndex.den > 3
    THEN "answerIndex must be between 0 and 3"
    ELSE IF ~IsInteger(question.answerIndex)
    THEN "answerIndex must be an integer"
    ELSE "none"

\* One invocation of the function generateQuiz hands to retryWithBackoff, on
\* the completion `response`: a failed call, text that is no JSON, or a JSON
\* object with a title and a list of questions.
FlatQuizAttempt(response) ==
    IF response.kind = "error"
    THEN [ok |-> FALSE, error |-> "No content received"]
    ELSE IF response.kind = "text"
    THEN [ok |-> FALSE, error |-> "Failed to parse JSON response"]
    ELSE LET quiz == [response.parsed EXCEPT
                        !.questions =
                           [i \in 1..Len(response.parsed.questions) |->
                              NormalizeAnswerIndex(response.parsed.questions[i])]]
         IN IF \/ quiz.title.type # "string"
               \/ StrLen(Trim(quiz.title.text)) = 0
            THEN [ok |-> FALSE, error |-> "Quiz title is missing or invalid"]
            ELSE IF Len(quiz.questions) < 5 \/ Len(quiz.questions) > 10
            THEN [ok |-> FALSE,
                  error |-> "Quiz must have between 5 and 10 questions"]
            ELSE IF \E i \in 1..Len(quiz.questions) :
                      FlatQuestionError(quiz.questions[i]) # "none"
            THEN [ok |-> FALSE,
                  error |-> FlatQuestionError(
                              quiz.questions[
                                CHOOSE i \in 1..Len(quiz.questions) :
                                  /\ FlatQuestionError(quiz.questions[i]) # "none"
                                  /\ \A j \in 1..(i - 1) :
                                       FlatQuestionError(quiz.questions[j])
                                         = "none"])]
            ELSE [ok |-> TRUE, value |-> quiz]

\* generateQuiz, given the completions its successive calls receive.
generateQuiz(responses) ==
    retryWithBackoff([k \in 1..Len(responses) |-> FlatQuizAttempt(responses[k])],
                     DefaultMaxRetries, DefaultBaseDelayMs)

---------------------------------------------------------------------------
(* Completions the model draws from *)

RawQuestion(n, nOptions, answerIndex) ==
    [question |-> <<Atom("question", n, 20)>>,
     options |-> [o \in 1..nOptions |-> <<Atom("option", o, 8)>>],
     answerIndex |-> answerIndex]

GoodA == RawQuestion(1, 4, JsonNumber(0, 1))
GoodB == RawQuestion(2, 4, JsonNumber(3, 1))

JsonResponse(questions) == [kind |-> "json", parsed |-> [questions |-> questions]]

\* Completions for a topic quiz: failures, well-formed quizzes of 2 and 4
\* questions, and quizzes breaking each rule of the schema.
TopicQuizResponses ==
    { [kind |-> "error"],
      [kind |-> "text"],
      JsonResponse(<<GoodA, GoodA>>),
      JsonResponse(<<GoodA, GoodA, GoodA, GoodA>>),
      JsonResponse(<<GoodA>>),
      JsonResponse(<<GoodA, GoodA, GoodA, GoodA, GoodA>>),
      JsonResponse(<<GoodA, RawQuestion(1, 5, JsonNumber(0, 1))>>),
      JsonResponse(<<GoodA, RawQuestion(1, 4, JsonNumber(4, 1))>>),
      JsonResponse(<<GoodA, RawQuestion(1, 4, JsonNumber(3, 2))>>),
      JsonResponse(<<GoodA, RawQuestion(1, 4, JsonString(Lit("2", 1)))>>) }

\* Everything generateQuizForTopic can settle to on these completions.
TopicQuizResults ==
    { generateQuizForTopic(responses) :
        responses \in [1..(DefaultMaxRetries + 1) -> TopicQuizResponses] }

\* The question lists a per-topic task can contribute: the validated
\* questions, or the empty list of the catch branch.
TopicQuestionLists == { QuestionsOrEmpty(r) : r \in TopicQuizResults }

---------------------------------------------------------------------------
(* Scenarios *)

MaxSegments == 3
MaxTopicIds == 3

\* A page whose i-th heading has the i-th level of `levels` and is followed by
\* one paragraph of 400 characters.
Page(levels) ==
    [i \in 1..Len(levels) |->
       RawTopic(<<Atom("heading", i, 10)>>, levels[i], <<Atom("p", i, 400)>>)]

\* Requested topic id lists: 1 to MaxTopicIds ids, each an id some topic may
\* get or an id no topic gets, duplicates included. The code uses the list as
\* a set (`in`) and by its length, so the lists are taken in ascending order.
TopicIdLists ==
    UNION { { ids \in [1..n -> 1..(MaxSegments + 1)] :
                \A i \in 1..(n - 1) : ids[i] <= ids[i + 1] } :
            n \in 1..MaxTopicIds }

\* Scenario "main": one quiz; its page has no heading, or MaxSegments headings
\* of levels 1, 2, 3, 1, ...
MainPages ==
    { Page([i \in 1..n |-> ((i - 1) % 3) + 1]) : n \in {0, MaxSegments} }

\* Scenario "topics": two quizzes; a page has MaxHeadings headings of any
\* levels 1..3.
MaxHeadings == 2
LevelPages == { Page(levels) : levels \in [1..MaxHeadings -> 1..3] }

\* Scenario "read": one quiz; its page has one heading; a topic's quiz is empty
\* or two questions of different answers.
ReadPages == { Page(<<1>>) }
ReadRequests == { <<1>>, <<2>> }
ReadQuizResponses == { [kind |-> "error"], JsonResponse(<<GoodA, GoodB>>) }
ReadQuestionLists ==
    { QuestionsOrEmpty(generateQuizForTopic(
                         [i \in 1..(DefaultMaxRetries + 1) |-> response])) :
        response \in ReadQuizResponses }

---------------------------------------------------------------------------
(* Store and processes *)

VARIABLES
    quizzes,    \* the quizzes table: quiz id -> row
    topics,     \* the topics table, in creation order; a row's id is its place
    orch,       \* quiz id -> the orchestrateQuiz run createQuiz started for it
    gen,        \* the generateQuizFromTopics request in flight (or the last)
    auto,       \* the generateQuizAutomatically run in flight (or the last)
    resp,       \* the last response of getQuizById
    scenario,   \* the scenario of the behaviour: what the environment offers
    input,      \* the argument of the function a scenario applies on its own
    output      \* what that function returned, once it has

vars == <<quizzes, topics, orch, gen, auto, resp, scenario, input, output>>

\* Outcomes of a persistence call.
DbOutcomes == {"ok", "error"}

QuizRow(status, questions, title) ==
    [status |-> status, questions |-> questions, title |-> title]

\* Topics of quiz q, in table order (findMany where quizId).
TopicsOf(q) == SelectSeq(topics, LAMBDA t: t.quizId = q)

\* prisma.quiz.update({data: {status}}) on quiz q.
SetStatus(table, q, status) == [table EXCEPT ![q].status = status]

---------------------------------------------------------------------------
(* Topic enrichment: src/unnamed/part_006, as seen by its caller *)

\* What enrichTopic resolves to once its retries succeed.
EnrichedOk ==
    [title |-> Lit("enriched title", 14),
     summary |-> <<Lit("bullet one", 10), Lit("bullet two", 10)>>,
     importance |-> 4]

\* enrichTopic either resolves to an enriched topic or rejects (all retries
\* failed).
EnrichResults == {[ok |-> TRUE, value |-> EnrichedOk], [ok |-> FALSE]}

\* Mutation of EnrichOrFallback: the fallback keeps no summary.
EnrichOrFallbackNoSummary(topic, result) ==
    IF result.ok
    THEN [topic |-> topic,
          enrichedTitle |-> result.value.title,
          enrichedSummary |-> result.value.summary,
          importance |-> result.value.importance,
          enrichFailed |-> FALSE]
    ELSE [topic |-> topic,
          enrichedTitle |-> topic.title,
          enrichedSummary |-> <<>>,
          importance |-> 3,
          enrichFailed |-> TRUE]

\* The body of the map callback of step 4: the enriched topic on success, the
\* fallback built from the original data in the catch branch.
EnrichOrFallback(topic, result) ==
    IF result.ok
    THEN [topic |-> topic,
          enrichedTitle |-> result.value.title,
          enrichedSummary |-> result.value.summary,
          importance |-> result.value.importance,
          enrichFailed |-> FALSE]
    ELSE [topic |-> topic,
          enrichedTitle |-> topic.title,
          enrichedSummary |-> IF topic.summary # Undefined
                              THEN <<topic.summary>>
                              ELSE <<Lit("No summary available", 20)>>,
          importance |-> 3,
          enrichFailed |-> TRUE]

---------------------------------------------------------------------------
(* Environment of a scenario *)

\* What the environment offers in the scenario the behaviour was started in.
\* In "reliable" and in "topics" no persistence call fails; in "topics" no
\* enrichment fails either. In "statusWrites" the writes of a quiz succeed
\* and the inserts of topics may fail; requests name one topic, as in "read".
MaxQuizzesIn(s) == IF s = "topics" THEN 2 ELSE 1

PagesIn(s) ==
    CASE s = "topics" -> LevelPages
      [] s = "read" -> ReadPages
      [] OTHER -> MainPages

RequestsIn(s) ==
    IF s \in {"read", "statusWrites"} THEN ReadRequests ELSE TopicIdLists

QuestionListsIn(s) ==
    IF s \in {"read", "statusWrites"} THEN ReadQuestionLists
    ELSE TopicQuestionLists

DbOutcomesIn(s) ==
    IF s \in {"reliable", "topics", "statusWrites"} THEN {"ok"} ELSE DbOutcomes

\* Outcomes of prisma.topic.create.
TopicCreateOutcomesIn(s) ==
    IF s = "statusWrites" THEN DbOutcomes ELSE DbOutcomesIn(s)

EnrichResultsIn(s) ==
    IF s = "topics" THEN {[ok |-> TRUE, value |-> EnrichedOk]}
    ELSE EnrichResults

---------------------------------------------------------------------------
(* createQuiz and orchestrateQuiz *)

\* generateQuizAutomatically before it is called for a quiz.
AutoIdle ==
    [pc |-> "idle", topics |-> <<>>, finalQuestions |-> <<>>,
     readyAtStart |-> FALSE]

\* The run of orchestrateQuiz before its first await.
OrchStart ==
    [pc |-> "scrape", normalizedTopics |-> <<>>, enrichedTopics |-> <<>>,
     createdTopics |-> <<>>, error |-> "none", failedWrite |-> "none",
     thrown |-> "none"]

\* The error orchestrateQuiz rethrows for the caught error: a new Error whose
\* message wraps the message of the caught one.
Rethrow(error) == "wrapped:" \o error

\* createQuiz: insert the quiz row and start the topic phase without
\* awaiting it.
CreateQuiz ==
    /\ Cardinality(DOMAIN quizzes) < MaxQuizzesIn(scenario)
    /\ LET id == Cardinality(DOMAIN quizzes) + 1
       IN /\ quizzes' = [q \in DOMAIN quizzes \cup {id} |->
                           IF q = id THEN QuizRow("processing", <<>>, Undefined)
                           ELSE quizzes[q]]
          /\ orch' = [q \in DOMAIN orch \cup {id} |->
                        IF q = id THEN OrchStart ELSE orch[q]]
          /\ auto' = [q \in DOMAIN auto \cup {id} |->
                        IF q = id THEN AutoIdle ELSE auto[q]]
    /\ UNCHANGED <<topics, gen, resp, scenario, input, output>>

\* Steps 1-3: the page is rendered (or fails to), segmented and normalized.
\* A page is given by the segments segmentContentByHeadings finds in it.
OrchScrape(q) ==
    /\ q \in DOMAIN orch
    /\ orch[q].pc = "scrape"
    /\ \/ orch' = [orch EXCEPT ![q].pc = "catch",
                               ![q].error = "Failed to load page"]
       \/ \E rawTopics \in PagesIn(scenario) :
            IF Len(rawTopics) = 0
            THEN orch' = [orch EXCEPT ![q].pc = "catch",
                                      ![q].error = "No topics found"]
            ELSE orch' = [orch EXCEPT
                            ![q].pc = "enrich",
                            ![q].normalizedTopics = normalizeTopics(rawTopics),
                            ![q].enrichedTopics =
                               [i \in 1..Len(normalizeTopics(rawTopics)) |->
                                  Undefined]]
    /\ UNCHANGED <<quizzes, topics, gen, auto, resp, scenario, input, output>>

\* Step 4: one task of the Promise.all settles, by success or by fallback.
\* The loop of step 5 starts once all have.
OrchEnrich(q, i) ==
    /\ q \in DOMAIN orch
    /\ orch[q].pc = "enrich"
    /\ i \in 1..Len(orch[q].normalizedTopics)
    /\ orch[q].enrichedTopics[i] = Undefined
    /\ \E result \in EnrichResultsIn(scenario) :
         LET enriched == [orch[q].enrichedTopics EXCEPT ![i] =
                            Some(EnrichOrFallback(orch[q].normalizedTopics[i],
                                                  result))]
             allDone == \A j \in 1..Len(enriched) : enriched[j] # Undefined
         IN orch' = [orch EXCEPT
                       ![q].enrichedTopics = enriched,
                       ![q].pc = IF allDone THEN "persist" ELSE "enrich"]
    /\ UNCHANGED <<quizzes, topics, gen, auto, resp, scenario, input, output>>

\* The parentId of the i-th topic (0-based) of the batch.
ResolveParentId(topic, i, createdTopics) ==
    IF topic.parentIndex # Undefined /\ topic.parentIndex[1] < i
    THEN Some(createdTopics[topic.parentIndex[1] + 1])
    ELSE Undefined

\* The row prisma.topic.create inserts for the i-th enriched topic.
TopicRow(id, q, enriched, i, createdTopics) ==
    [id |-> id,
     quizId |-> q,
     title |-> enriched.enrichedTitle,
     summary |-> Join(enriched.enrichedSummary, Lit("\n", 1)),
     level |-> enriched.topic.level,
     parentId |-> ResolveParentId(enriched.topic, i, createdTopics),
     content |-> enriched.topic.content,
     tokenEstimate |-> enriched.topic.tokenEstimate,
     status |-> "ready"]

\* Mutation of OrchCreateTopic: the loop ends after its first insert.
OrchCreateTopicOnce(q) ==
    /\ q \in DOMAIN orch
    /\ orch[q].pc = "persist"
    /\ LET i == Len(orch[q].createdTopics)
           id == Len(topics) + 1
       IN \E outcome \in TopicCreateOutcomesIn(scenario) :
            IF outcome = "ok"
            THEN /\ topics' = Append(topics,
                                     TopicRow(id, q,
                                              orch[q].enrichedTopics[i + 1][1],
                                              i, orch[q].createdTopics))
                 /\ orch' = [orch EXCEPT
                               ![q].createdTopics = Append(@, id),
                               ![q].pc = "setStatus"]
            ELSE /\ topics' = topics
                 /\ orch' = [orch EXCEPT ![q].pc = "catch",
                                         ![q].error = "topic.create failed"]
    /\ UNCHANGED <<quizzes, gen, auto, resp, scenario, input, output>>

\* Step 5: one iteration of the loop; a failed insert throws.
OrchCreateTopic(q) ==
    /\ q \in DOMAIN orch
    /\ orch[q].pc = "persist"
    /\ LET i == Len(orch[q].createdTopics)
           id == Len(topics) + 1
       IN \E outcome \in TopicCreateOutcomesIn(scenario) :
            IF outcome = "ok"
            THEN /\ topics' = Append(topics,
                                     TopicRow(id, q,
                                              orch[q].enrichedTopics[i + 1][1],
                                              i, orch[q].createdTopics))
                 /\ orch' = [orch EXCEPT
                               ![q].createdTopics = Append(@, id),
                               ![q].pc =
                                  IF i + 1 < Len(orch[q].enrichedTopics)
                                  THEN "persist" ELSE "setStatus"]
            ELSE /\ topics' = topics
                 /\ orch' = [orch EXCEPT ![q].pc = "catch",
                                         ![q].error = "topic.create failed"]
    /\ UNCHANGED <<quizzes, gen, auto, resp, scenario, input, output>>

\* Step 6: the status becomes processing_topics.
OrchSetProcessingTopics(q) ==
    /\ q \in DOMAIN orch
    /\ orch[q].pc = "setStatus"
    /\ \E outcome \in DbOutcomesIn(scenario) :
         IF outcome = "ok"
         THEN /\ quizzes' = SetStatus(quizzes, q, "processing_topics")
              /\ orch' = [orch EXCEPT ![q].pc = "done"]
         ELSE /\ quizzes' = quizzes
              /\ orch' = [orch EXCEPT ![q].pc = "catch",
                                      ![q].error = "quiz.update failed"]
    /\ UNCHANGED <<topics, gen, auto, resp, scenario, input, output>>

\* Mutation of OrchCatch: a failure of the status write escapes the catch
\* block in place of the caught error.
OrchCatchRaisesWriteError(q) ==
    /\ q \in DOMAIN orch
    /\ orch[q].pc = "catch"
    /\ \E outcome \in DbOutcomesIn(scenario) :
         /\ quizzes' = IF outcome = "ok" THEN SetStatus(quizzes, q, "failed")
                       ELSE quizzes
         /\ orch' = [orch EXCEPT ![q].pc = "rejected",
                                 ![q].failedWrite = outcome,
                                 ![q].thrown =
                                    IF outcome = "ok"
                                    THEN Rethrow(orch[q].error)
                                    ELSE "quiz.update failed"]
    /\ UNCHANGED <<topics, gen, auto, resp, scenario, input, output>>

\* Mutation of OrchCatch: the catch block rethrows without writing failed.
OrchCatchWritesNothing(q) ==
    /\ q \in DOMAIN orch
    /\ orch[q].pc = "catch"
    /\ orch' = [orch EXCEPT ![q].pc = "rejected",
                            ![q].failedWrite = "error",
                            ![q].thrown = Rethrow(orch[q].error)]
    /\ UNCHANGED <<quizzes, topics, gen, auto, resp, scenario, input, output>>

\* The catch block: the status write to failed is attempted, its own failure
\* is logged, and the caught error is rethrown wrapped.
OrchCatch(q) ==
    /\ q \in DOMAIN orch
    /\ orch[q].pc = "catch"
    /\ \E outcome \in DbOutcomesIn(scenario) :
         /\ quizzes' = IF outcome = "ok" THEN SetStatus(quizzes, q, "failed")
                       ELSE quizzes
         /\ orch' = [orch EXCEPT ![q].pc = "rejected",
                                 ![q].failedWrite = outcome,
                                 ![q].thrown = Rethrow(orch[q].error)]
    /\ UNCHANGED <<topics, gen, auto, resp, scenario, input, output>>

\* The .catch handler createQuiz attaches to the run: it writes failed again.
CreateQuizCatch(q) ==
    /\ q \in DOMAIN orch
    /\ orch[q].pc = "rejected"
    /\ \E outcome \in DbOutcomesIn(scenario) :
         quizzes' = IF outcome = "ok" THEN SetStatus(quizzes, q, "failed")
                    ELSE quizzes
    /\ orch' = [orch EXCEPT ![q].pc = "handled"]
    /\ UNCHANGED <<topics, gen, auto, resp, scenario, input, output>>

---------------------------------------------------------------------------
(* Merge, shuffle and cap: quiz.controller.ts 260-278, orchestrator 312-331 *)

QuestionCap == 10

\* allQuestionArrays.flat()
RECURSIVE Flat(_)
Flat(arrays) == IF arrays = <<>> THEN <<>> ELSE Head(arrays) \o Flat(Tail(arrays))

\* Mutation of Swap: s[i] = s[j] alone.
SwapCopies(s, i, j) == [k \in 1..Len(s) |-> IF k = i + 1 THEN s[j + 1] ELSE s[k]]

\* [s[i], s[j]] = [s[j], s[i]], on 0-based indices.
Swap(s, i, j) ==
    [k \in 1..Len(s) |-> IF k = i + 1 THEN s[j + 1]
                         ELSE IF k = j + 1 THEN s[i + 1] ELSE s[k]]

\* The Fisher-Yates loop from index i down to 1, over every value
\* Math.floor(Math.random() * (i + 1)) can take: the set of lists it can leave.
RECURSIVE FisherYates(_, _)
FisherYates(lists, i) ==
    IF i <= 0 THEN lists
    ELSE FisherYates({ Swap(s, i, j) : s \in lists, j \in 0..i }, i - 1)

\* shuffled.slice(0, 10)
\* Mutation of Slice: the whole list is kept.
SliceKeepsAll(s, n) == s

Slice(s, n) == SubSeq(s, 1, IF Len(s) < n THEN Len(s) ELSE n)

\* Every finalQuestions the shuffle and the cap can produce from allQuestions.
FinalQuestions(allQuestions) ==
    { Slice(s, QuestionCap) :
        s \in FisherYates({allQuestions}, Len(allQuestions) - 1) }

\* Every allQuestions the tasks of n topics can leave after Promise.all and
\* flat(), each task contributing one of `lists`.
AllQuestionsOf(n, lists) == { Flat(results) : results \in [1..n -> lists] }

\* prisma.quiz.update({data: {questions, status: 'ready'}}) on quiz q.
CommitQuestions(table, q, finalQuestions) ==
    [table EXCEPT ![q].questions = finalQuestions, ![q].status = "ready"]

\* A quiz that is ready with a non-empty question list.
ReadyWithQuestions(row) == row.status = "ready" /\ Len(row.questions) > 0

RangeOf(s) == { s[i] : i \in 1..Len(s) }

---------------------------------------------------------------------------
(* generateQuizFromTopics: quiz.controller.ts 196-299 *)

GenIdle(res) ==
    [pc |-> "idle", quizId |-> 0, topics |-> <<>>, readyAtStart |-> FALSE,
     res |-> res]

\* The request arrives, the quiz is looked up (404 when it is missing), the
\* requested topics are read with findMany({id: {in: topicIds}, quizId}) and
\* the membership check is made. The first read decides only whether the quiz
\* exists, which never changes once it does, so both reads are taken at the
\* instant of the second.
GenStart(q, topicIds) ==
    /\ gen.pc = "idle"
    /\ IF q \notin DOMAIN quizzes
       THEN gen' = GenIdle("404")
       ELSE LET found == SelectSeq(topics, LAMBDA t:
                                     t.id \in RangeOf(topicIds) /\ t.quizId = q)
            IN IF Len(found) # Len(topicIds)
               THEN gen' = GenIdle("400")
               ELSE gen' = [pc |-> "generate", quizId |-> q,
                            topics |-> [i \in 1..Len(found) |-> found[i].id],
                            readyAtStart |-> ReadyWithQuestions(quizzes[q]),
                            res |-> "none"]
    /\ UNCHANGED <<quizzes, topics, orch, auto, resp, scenario, input, output>>

\* The per-topic tasks settle, the lists are merged, shuffled and capped, and
\* the result is written with status ready (no re-read before the write).
GenFinish ==
    /\ gen.pc = "generate"
    /\ \E allQuestions \in AllQuestionsOf(Len(gen.topics),
                                            QuestionListsIn(scenario)) :
            IF Len(allQuestions) = 0
            THEN /\ gen' = GenIdle("500")
                 /\ quizzes' = quizzes
            ELSE \E finalQuestions \in FinalQuestions(allQuestions) :
                 \E outcome \in DbOutcomesIn(scenario) :
                   IF outcome = "ok"
                   THEN /\ quizzes' = CommitQuestions(quizzes, gen.quizId,
                                                      finalQuestions)
                        /\ gen' = GenIdle("200")
                   ELSE /\ quizzes' = quizzes
                        /\ gen' = GenIdle("500")
    /\ UNCHANGED <<topics, orch, auto, resp, scenario, input, output>>

---------------------------------------------------------------------------
(* generateQuizAutomatically: agent-orchestrator.service.ts 242-361 *)

\* The run starts and reads the quiz; it skips when the quiz is ready or has
\* questions. The source holds no call of this function; per its header
\* ("called internally after topics are processed") a run starts after the
\* topic phase of the quiz has completed.
AutoStart(q) ==
    /\ q \in DOMAIN quizzes
    /\ orch[q].pc = "done"
    /\ auto[q].pc = "idle"
    /\ auto' = [auto EXCEPT
                  ![q].readyAtStart = ReadyWithQuestions(quizzes[q]),
                  ![q].pc = IF quizzes[q].status = "ready"
                               \/ Len(quizzes[q].questions) > 0
                            THEN "done" ELSE "findTopics"]
    /\ UNCHANGED <<quizzes, topics, orch, gen, resp, scenario, input, output>>

\* findMany({quizId}); no topics ends the run.
AutoFindTopics(q) ==
    /\ q \in DOMAIN quizzes
    /\ auto[q].pc = "findTopics"
    /\ LET found == TopicsOf(q)
       IN auto' = [auto EXCEPT
                     ![q].topics = [i \in 1..Len(found) |-> found[i].id],
                     ![q].pc = IF Len(found) = 0 THEN "done" ELSE "generate"]
    /\ UNCHANGED <<quizzes, topics, orch, gen, resp, scenario, input, output>>

\* The per-topic tasks settle, the lists are merged, shuffled and capped, and
\* the quiz is read again: the write is skipped when the quiz is ready with a
\* non-empty question list.
AutoGenerate(q) ==
    /\ q \in DOMAIN quizzes
    /\ auto[q].pc = "generate"
    /\ \E allQuestions \in AllQuestionsOf(Len(auto[q].topics),
                                            QuestionListsIn(scenario)) :
            IF Len(allQuestions) = 0
            THEN auto' = [auto EXCEPT ![q].pc = "done"]
            ELSE \E finalQuestions \in FinalQuestions(allQuestions) :
                   IF ReadyWithQuestions(quizzes[q])
                   THEN auto' = [auto EXCEPT ![q].pc = "done"]
                   ELSE auto' = [auto EXCEPT
                                   ![q].pc = "commit",
                                   ![q].finalQuestions = finalQuestions]
    /\ UNCHANGED <<quizzes, topics, orch, gen, resp, scenario, input, output>>

\* The write of the questions with status ready; its failure is swallowed.
AutoCommit(q) ==
    /\ q \in DOMAIN quizzes
    /\ auto[q].pc = "commit"
    /\ \E outcome \in DbOutcomesIn(scenario) :
         quizzes' = IF outcome = "ok"
                    THEN CommitQuestions(quizzes, q, auto[q].finalQuestions)
                    ELSE quizzes
    /\ auto' = [auto EXCEPT ![q].pc = "done", ![q].finalQuestions = <<>>]
    /\ UNCHANGED <<topics, orch, gen, resp, scenario, input, output>>

---------------------------------------------------------------------------
(* getQuizById: quiz.controller.ts 147-190 *)

\* Mutation of WithoutAnswer: the question is returned as stored.
WithAnswer(question) == question

\* ({ answerIndex, ...question }) => question
WithoutAnswer(question) ==
    [f \in DOMAIN question \ {"answerIndex"} |-> question[f]]

\* The body of the 200 response for a quiz row.
getQuizById(id, quiz) ==
    LET questions == quiz.questions
        hasQuestions == Len(questions) > 0
        questionsWithoutAnswers ==
          IF hasQuestions
          THEN [i \in 1..Len(questions) |-> WithoutAnswer(questions[i])]
          ELSE <<>>
    IN [id |-> id,
        title |-> quiz.title,
        questions |-> IF quiz.status = "ready" /\ hasQuestions
                      THEN Some(questionsWithoutAnswers)
                      ELSE Undefined,
        status |-> quiz.status]

\* A GET request for quiz q is answered.
GetQuiz(q) ==
    /\ q \in DOMAIN quizzes
    /\ resp' = Some(getQuizById(q, quizzes[q]))
    /\ UNCHANGED <<quizzes, topics, orch, gen, auto, scenario, input, output>>

---------------------------------------------------------------------------
(* submitQuiz: quiz.controller.ts 12-91 *)

\* Math.round((correctCount / totalQuestions) * 100): the nearest integer,
\* a half rounded up. (No quiz has more than 10 questions; for such
\* denominators the halves, the eighths, are exact in floating point.)
RoundPercent(correctCount, totalQuestions) ==
    (200 * correctCount + totalQuestions) \div (2 * totalQuestions)

\* Mutation of SubmitResults: every entry reports the first question.
SubmitResultsOfFirst(questions, answers) ==
    [i \in 1..Len(questions) |->
       [questionIndex |-> 0,
        correct |-> answers[1] = questions[1].answerIndex,
        correctAnswerIndex |-> questions[1].answerIndex,
        userAnswerIndex |-> answers[1]]]

\* questions.map((question, index) => ...): one entry per question, in
\* order; questionIndex is 0-based.
SubmitResults(questions, answers) ==
    [i \in 1..Len(questions) |->
       [questionIndex |-> i - 1,
        correct |-> answers[i] = questions[i].answerIndex,
        correctAnswerIndex |-> questions[i].answerIndex,
        userAnswerIndex |-> answers[i]]]

\* correctCount after the map: the entries found correct.
CorrectCount(results) ==
    Cardinality({i \in 1..Len(results) : results[i].correct})

\* Mutation of submitQuiz: the answers are not checked to be in 0..3.
submitQuizAnyAnswer(id, quiz, owns, answers) ==
    IF quiz = Undefined
    THEN [code |-> 404, error |-> "Quiz not found"]
    ELSE IF ~owns
    THEN [code |-> 403, error |-> "Forbidden"]
    ELSE IF quiz[1].status # "ready"
    THEN [code |-> 400, error |-> "Quiz is not ready"]
    ELSE IF Len(answers) # Len(quiz[1].questions)
    THEN [code |-> 400, error |-> "Number of answers does not match"]
    ELSE LET results == SubmitResults(quiz[1].questions, answers)
             correctCount == CorrectCount(results)
             totalQuestions == Len(quiz[1].questions)
             score == RoundPercent(correctCount, totalQuestions)
         IN [code |-> 200,
             quizId |-> id,
             score |-> score,
             correctCount |-> correctCount,
             totalQuestions |-> totalQuestions,
             percentage |-> score,
             results |-> results]

\* The handler on the row findUnique returned (absent when there is none),
\* for a requester who owns the quiz or not, and the answers of the body.
submitQuiz(id, quiz, owns, answers) ==
    IF quiz = Undefined
    THEN [code |-> 404, error |-> "Quiz not found"]
    ELSE IF ~owns
    THEN [code |-> 403, error |-> "Forbidden"]
    ELSE IF quiz[1].status # "ready"
    THEN [code |-> 400, error |-> "Quiz is not ready"]
    ELSE IF Len(answers) # Len(quiz[1].questions)
    THEN [code |-> 400, error |-> "Number of answers does not match"]
    ELSE IF \E i \in 1..Len(answers) : answers[i] < 0 \/ answers[i] > 3
    THEN [code |-> 400, error |-> "Invalid answer"]
    ELSE LET results == SubmitResults(quiz[1].questions, answers)
             correctCount == CorrectCount(results)
             totalQuestions == Len(quiz[1].questions)
             score == RoundPercent(correctCount, totalQuestions)
         IN [code |-> 200,
             quizId |-> id,
             score |-> score,
             correctCount |-> correctCount,
             totalQuestions |-> totalQuestions,
             percentage |-> score,
             results |-> results]

---------------------------------------------------------------------------
(* Functions applied on their own *)

\* A stored question with the given answer.
StoredQuestion(n, answerIndex) ==
    ValidatedQuestion(RawQuestion(n, 4, JsonNumber(answerIndex, 1)))

\* A ready quiz whose questions have the given answers.
ReadyQuiz(answerIndexes) ==
    QuizRow("ready",
            [i \in 1..Len(answerIndexes) |->
               StoredQuestion(i, answerIndexes[i])],
            Undefined)

\* Scenario "submit": a ready quiz of 1 to MaxSubmitQuestions questions with
\* any answers, or of 5 or 8 questions, or a quiz that is not ready, or none;
\* answered with 1 to MaxSubmitQuestions values of -1..4, or with 5 or 8
\* answers.
MaxSubmitQuestions == 2

SubmitAnswerLists ==
    UNION { [1..n -> -1..4] : n \in 1..MaxSubmitQuestions }

SubmitInputs ==
    { [quiz |-> Some(ReadyQuiz(answerIndexes)), owns |-> TRUE,
       answers |-> answers] :
        answerIndexes \in UNION { [1..n -> 0..3] : n \in 1..MaxSubmitQuestions },
        answers \in SubmitAnswerLists }
    \cup { [quiz |-> Some(ReadyQuiz(<<0, 2, 1, 3, 0>>)), owns |-> TRUE,
            answers |-> [<<0, 2, 1, 3, 0>> EXCEPT ![i] = a]] :
             i \in 1..5, a \in 0..3 }
    \cup { [quiz |-> Some(ReadyQuiz([i \in 1..8 |-> 0])), owns |-> TRUE,
            answers |-> [i \in 1..8 |-> IF i <= k THEN 0 ELSE 1]] :
             k \in 0..8 }
    \cup { [quiz |-> quiz, owns |-> owns, answers |-> <<0>>] :
             quiz \in { Undefined,
                        Some(QuizRow("processing", <<>>, Undefined)),
                        Some(QuizRow("processing_topics", <<>>, Undefined)),
                        Some(QuizRow("failed", <<>>, Undefined)),
                        Some(ReadyQuiz(<<0>>)) },
             owns \in BOOLEAN }

\* Paragraph lengths around the thresholds of the normalizer: below the merge
\* threshold, above it, over half of the character budget of a topic (two such
\* paragraphs exceed it, and do not fit one chunk), and over the whole budget.
ShortLen == MergeThreshold \div 2
LongLen == MergeThreshold + 100
HalfBudgetLen == 2 * MaxTopicTokens + 1000
HugeLen == 5 * MaxTopicTokens

\* The i-th segment of a page: its heading, its level, and paragraphs of the
\* given lengths, each paragraph a distinct atom.
Segment(i, level, lens) ==
    RawTopic(<<Atom("heading", i, 10)>>, level,
             [k \in 1..Len(lens) |-> Atom("p", 10 * i + k, lens[k])])

\* What can follow a heading: nothing, a short or a long paragraph, a long and
\* a short one, two paragraphs that exceed the budget together, one that
\* exceeds it alone.
ContentShapes ==
    { <<>>, <<ShortLen>>, <<LongLen>>, <<LongLen, ShortLen>>,
      <<HalfBudgetLen, HalfBudgetLen>>, <<HugeLen>> }

\* Pages of 1 to MaxMixedSegments segments of any level and content shape.
MaxMixedSegments == 2

MixedPages ==
    UNION { { [i \in 1..n |-> Segment(i, levels[i], shapes[i])] :
                levels \in [1..n -> 1..3], shapes \in [1..n -> ContentShapes] } :
            n \in 1..MaxMixedSegments }

\* Pages of 1 to MaxHierarchy segments of any levels, none merged or split.
MaxHierarchy == 4

HierarchyPages ==
    UNION { { Page(levels) : levels \in [1..n -> 1..3] } :
            n \in 1..MaxHierarchy }

\* Pages of more than MaxTopics one-paragraph segments with pairwise distinct
\* content lengths: MaxTopics + 1 or MaxTopics + Excess segments, the lengths
\* ascending, descending or alternating, all below or all above the merge
\* threshold, the levels all 1 or cycling through 1, 2, 3.
Excess == 10

CapOrder(order, i, n) ==
    CASE order = "ascending" -> i
      [] order = "descending" -> n + 1 - i
      [] OTHER -> IF i % 2 = 0 THEN i \div 2 ELSE n + 1 - ((i + 1) \div 2)

CapPages ==
    { [i \in 1..n |->
         Segment(i, IF cycling THEN ((i - 1) % 3) + 1 ELSE 1,
                 <<base + CapOrder(order, i, n)>>)] :
        n \in {MaxTopics + 1, MaxTopics + Excess},
        order \in {"ascending", "descending", "alternating"},
        base \in {0, MergeThreshold},
        cycling \in BOOLEAN }

\* Scenario "normalize": normalizeTopics on a page.
NormalizeInputs == MixedPages \cup HierarchyPages \cup CapPages

ApplyNormalize ==
    /\ scenario = "normalize"
    /\ output = Undefined
    /\ output' = Some(normalizeTopics(input))
    /\ UNCHANGED <<quizzes, topics, orch, gen, auto, resp, scenario, input>>

\* Scenario "split": splitTopic on one segment of 1 to MaxSplitParagraphs
\* paragraphs, each of a length around the thresholds.
MaxSplitParagraphs == 4

SplitInputs ==
    UNION { { Segment(1, 1, lens) :
                lens \in [1..n -> {ShortLen, LongLen, HalfBudgetLen, HugeLen}] } :
            n \in 1..MaxSplitParagraphs }

ApplySplit ==
    /\ scenario = "split"
    /\ output = Undefined
    /\ output' = Some(splitTopic(input, MaxTopicTokens))
    /\ UNCHANGED <<quizzes, topics, orch, gen, auto, resp, scenario, input>>

\* Scenario "merge": step 1 of normalizeTopics on 1 to MaxMergeSegments level-1
\* segments of one paragraph each, of a length below or above the merge
\* threshold.
MaxMergeSegments == 4

MergeLens == {5, 10, 400}

MergeInputs ==
    UNION { { [i \in 1..n |-> Segment(i, 1, <<lens[i]>>)] :
                lens \in [1..n -> MergeLens] } :
            n \in 1..MaxMergeSegments }

ApplyMerge ==
    /\ scenario = "merge"
    /\ output = Undefined
    /\ output' = Some(MergeSmall(input, 1, <<>>))
    /\ UNCHANGED <<quizzes, topics, orch, gen, auto, resp, scenario, input>>

\* Scenario "retry": retryWithBackoff with maxRetries from 0 to
\* MaxRetriesTried and the default or a shorter base delay, on a function
\* whose k-th invocation resolves to k or rejects with error k; the function
\* can be invoked once more than the loop allows.
MaxRetriesTried == 3

RetryBaseDelays == {DefaultBaseDelayMs, 250}

RetryInputs ==
    UNION { { [maxRetries |-> m,
               baseDelayMs |-> base,
               outcomes |-> [k \in 1..(m + 2) |->
                               IF oks[k] THEN [ok |-> TRUE, value |-> k]
                               ELSE [ok |-> FALSE, error |-> k]]] :
                oks \in [1..(m + 2) -> BOOLEAN], base \in RetryBaseDelays } :
            m \in 0..MaxRetriesTried }

ApplyRetry ==
    /\ scenario = "retry"
    /\ output = Undefined
    /\ output' = Some(retryWithBackoff(input.outcomes, input.maxRetries,
                                       input.baseDelayMs))
    /\ UNCHANGED <<quizzes, topics, orch, gen, auto, resp, scenario, input>>

\* Scenario "shuffle": the lists of 1 to MaxShuffleTopics per-topic tasks are
\* merged, shuffled and capped. A task contributes no question (its catch
\* branch) or 2 to 4 questions, of two kinds.
MaxShuffleTopics == 3

ShuffleLists ==
    LET a == ValidatedQuestion(GoodA)
        b == ValidatedQuestion(GoodB)
    IN { <<>>, <<a, b>>, <<a, a, b>>, <<a, a, a, a>> }

ShuffleInputs == UNION { [1..n -> ShuffleLists] : n \in 1..MaxShuffleTopics }

\* allQuestionArrays.flat(), the shuffle and slice(0, 10); an empty merged list
\* ends the run with nothing written.
ApplyShuffle ==
    /\ scenario = "shuffle"
    /\ output = Undefined
    /\ Len(Flat(input)) > 0
    /\ \E finalQuestions \in FinalQuestions(Flat(input)) :
         output' = Some(finalQuestions)
    /\ UNCHANGED <<quizzes, topics, orch, gen, auto, resp, scenario, input>>

\* Scenario "topicQuiz": generateQuizForTopic on the completions of its
\* DefaultMaxRetries + 1 invocations: those of TopicQuizResponses, and quizzes
\* whose question text or option is empty, blank, or padded with whitespace.
WithQuestionText(text) == [GoodA EXCEPT !.question = text]
WithFirstOption(text) == [GoodA EXCEPT !.options[1] = text]

BlankText == <<Atom("ws", 0, 1)>>
PaddedText == <<Atom("ws", 0, 1), Atom("question", 3, 20), Atom("ws", 0, 2)>>

TopicQuizInputs ==
    [1..(DefaultMaxRetries + 1) ->
       TopicQuizResponses
       \cup { JsonResponse(<<GoodA, q>>) :
                q \in { WithQuestionText(<<>>), WithQuestionText(BlankText),
                        WithQuestionText(PaddedText), WithFirstOption(<<>>),
                        WithFirstOption(BlankText) } }]

ApplyTopicQuiz ==
    /\ scenario = "topicQuiz"
    /\ output = Undefined
    /\ output' = Some(generateQuizForTopic(input))
    /\ UNCHANGED <<quizzes, topics, orch, gen, auto, resp, scenario, input>>

\* Scenario "explicit": generateQuizFromTopics from the start of the per-topic
\* tasks on, for 1 to MaxExplicitTopics selected topics. The quiz has no
\* question yet or is ready with one; the completions of a topic all fail, or
\* all give the same quiz of 2 or 4 questions.
MaxExplicitTopics == 2

ExplicitResults ==
    { generateQuizForTopic([k \in 1..(DefaultMaxRetries + 1) |-> response]) :
        response \in { [kind |-> "error"],
                       JsonResponse(<<GoodA, GoodB>>),
                       JsonResponse(<<GoodA, GoodA, GoodA, GoodB>>) } }

ExplicitInputs ==
    { [quiz |-> quiz, results |-> results] :
        quiz \in { QuizRow("processing_topics", <<>>, Undefined),
                   ReadyQuiz(<<1>>) },
        results \in UNION { [1..n -> ExplicitResults] :
                              n \in 1..MaxExplicitTopics } }

\* The tasks settle (a rejected one to the empty list), the lists are merged;
\* an empty merge is answered 500; otherwise the list is shuffled, capped and
\* written with status ready, and a failed write is answered 500 by the catch
\* block. output is the status code and the outcome of the write.
ApplyExplicit ==
    /\ scenario = "explicit"
    /\ output = Undefined
    /\ LET allQuestions ==
             Flat([i \in 1..Len(input.results) |->
                     QuestionsOrEmpty(input.results[i])])
       IN IF Len(allQuestions) = 0
          THEN /\ output' = Some([res |-> "500", write |-> "none"])
               /\ quizzes' = quizzes
          ELSE \E finalQuestions \in FinalQuestions(allQuestions) :
               \E outcome \in DbOutcomes :
                 IF outcome = "ok"
                 THEN /\ quizzes' = CommitQuestions(quizzes, 1, finalQuestions)
                      /\ output' = Some([res |-> "200", write |-> "ok"])
                 ELSE /\ quizzes' = quizzes
                      /\ output' = Some([res |-> "500", write |-> "error"])
    /\ UNCHANGED <<topics, orch, gen, auto, resp, scenario, input>>

\* Scenario "flatQuiz": generateQuiz when its first completion is a quiz that
\* differs from a well-formed one in one place (the title, the number of
\* questions, the text, the options or the answerIndex of the last question)
\* and its later completions all repeat the first or are all well-formed.
FlatQuestion(n, text, options, answerIndex) ==
    [question |-> text, options |-> options, answerIndex |-> answerIndex]

FlatOptions == [o \in 1..4 |-> JsonString(<<Atom("option", o, 8)>>)]

FlatGoodQuestion(n) ==
    FlatQuestion(n, JsonString(<<Atom("question", n, 20)>>), FlatOptions,
                 JsonNumber(n % 4, 1))

FlatQuiz(title, n, last) ==
    [kind |-> "json",
     parsed |-> [title |-> title,
                 questions |-> [i \in 1..n |->
                                  IF i = n THEN last ELSE FlatGoodQuestion(i)]]]

FlatGoodTitle == JsonString(Lit("A quiz", 6))

IntText(n) == <<Atom("int", n, IF n < 0 THEN 2 ELSE 1)>>

FlatAnswerIndexes ==
    { JsonNumber(0, 1), JsonNumber(3, 1), JsonNumber(4, 1), JsonNumber(-1, 1),
      JsonNumber(5, 2), JsonNumber(7, 2), JsonNumber(-1, 2),
      JsonString(IntText(2)), JsonString(IntText(7)), JsonString(IntText(-1)),
      JsonString(BlankText \o IntText(1) \o BlankText),
      JsonString(IntText(2) \o Lit("abc", 3)),
      JsonString(Lit("abc", 3)), JsonString(<<>>),
      JsonNull, JsonBoolean }

FlatQuizResponses ==
    { [kind |-> "error"], [kind |-> "text"] }
    \cup { FlatQuiz(title, 5, FlatGoodQuestion(5)) :
             title \in { FlatGoodTitle, JsonString(<<>>), JsonString(BlankText),
                         JsonNull, JsonNumber(1, 1) } }
    \cup { FlatQuiz(FlatGoodTitle, n, FlatGoodQuestion(n)) :
             n \in {4, 5, 10, 11} }
    \cup { FlatQuiz(FlatGoodTitle, 5,
                    FlatQuestion(5, text, FlatOptions, JsonNumber(1, 1))) :
             text \in { JsonString(<<>>), JsonString(BlankText), JsonNull } }
    \cup { FlatQuiz(FlatGoodTitle, 5,
                    FlatQuestion(5, JsonString(<<Atom("question", 5, 20)>>),
                                 options, JsonNumber(1, 1))) :
             options \in { SubSeq(FlatOptions, 1, 3),
                           FlatOptions \o <<FlatOptions[1]>>,
                           [FlatOptions EXCEPT ![2] = JsonString(<<>>)],
                           [FlatOptions EXCEPT ![2] = JsonString(BlankText)],
                           [FlatOptions EXCEPT ![2] = JsonNumber(1, 1)] } }
    \cup { FlatQuiz(FlatGoodTitle, 5,
                    FlatQuestion(5, JsonString(<<Atom("question", 5, 20)>>),
                                 FlatOptions, answerIndex)) :
             answerIndex \in FlatAnswerIndexes }

FlatQuizInputs ==
    { [k \in 1..(DefaultMaxRetries + 1) |->
         IF k = 1 \/ repeated THEN first
         ELSE FlatQuiz(FlatGoodTitle, 5, FlatGoodQuestion(5))] :
        first \in FlatQuizResponses, repeated \in BOOLEAN }

ApplyFlatQuiz ==
    /\ scenario = "flatQuiz"
    /\ output = Undefined
    /\ output' = Some(generateQuiz(input))
    /\ UNCHANGED <<quizzes, topics, orch, gen, auto, resp, scenario, input>>

\* Scenario "request": a POST /:quizId/generate request for quiz 1 arrives when
\* the store holds two quizzes, topics 1 and 2 of quiz 1 and topic 3 of quiz 2.
\* It names 1 to MaxRequestIds topic ids, each one of those three or an id of
\* no topic, in any order and with repetitions (generateQuizSchema asks for a
\* non-empty array of uuids and nothing more).
MaxRequestIds == 2

RequestQuizzes ==
    <<QuizRow("processing_topics", <<>>, Undefined),
      QuizRow("processing_topics", <<>>, Undefined)>>

RequestTopics ==
    LET normalized == normalizeTopics(Page(<<1, 1, 1>>))
    IN [id \in 1..3 |->
          TopicRow(id, IF id = 3 THEN 2 ELSE 1,
                   EnrichOrFallback(normalized[id], [ok |-> FALSE]),
                   id - 1, [k \in 1..(id - 1) |-> k])]

RequestInputs ==
    UNION { [1..n -> 1..(Len(RequestTopics) + 1)] : n \in 1..MaxRequestIds }

RequestGenerate ==
    /\ scenario = "request"
    /\ gen = GenIdle("none")
    /\ GenStart(1, input)

\* The row prisma.quiz.findUnique returns for quiz q, absent when there is
\* none.
FindQuiz(q) == IF q \in DOMAIN quizzes THEN Some(quizzes[q]) ELSE Undefined

\* A POST /:quizId/submit request is answered: the quiz is read from the store
\* and nothing is written.
ApplySubmit ==
    /\ scenario = "submit"
    /\ output = Undefined
    /\ output' = Some(submitQuiz(1, FindQuiz(1), input.owns, input.answers))
    /\ UNCHANGED <<quizzes, topics, orch, gen, auto, resp, scenario, input>>

---------------------------------------------------------------------------
(* Specifications *)

\* The state after construction, in scenario s: empty tables, nothing in
\* flight.
InitIn(s) ==
    /\ quizzes = <<>>
    /\ topics = <<>>
    /\ orch = <<>>
    /\ auto = <<>>
    /\ gen = GenIdle("none")
    /\ resp = Undefined
    /\ scenario = s
    /\ input = Undefined
    /\ output = Undefined

Init == InitIn("main")

QuizIds == 1..MaxQuizzesIn(scenario)

TopicPhase ==
    \/ CreateQuiz
    \/ \E q \in QuizIds : OrchScrape(q)
    \/ \E q \in QuizIds : \E i \in 1..MaxTopics : OrchEnrich(q, i)
    \/ \E q \in QuizIds : OrchCreateTopic(q)
    \/ \E q \in QuizIds : OrchSetProcessingTopics(q)
    \/ \E q \in QuizIds : OrchCatch(q)
    \/ \E q \in QuizIds : CreateQuizCatch(q)

GenerationPhase ==
    \/ \E q \in QuizIds : \E topicIds \in RequestsIn(scenario) : GenStart(q, topicIds)
    \/ GenFinish
    \/ \E q \in QuizIds : AutoStart(q)
    \/ \E q \in QuizIds : AutoFindTopics(q)
    \/ \E q \in QuizIds : AutoGenerate(q)
    \/ \E q \in QuizIds : AutoCommit(q)

Next == TopicPhase \/ GenerationPhase

Spec == Init /\ [][Next]_vars

\* The steps of the runs in flight: each awaited call returns, so each of
\* them is taken eventually. Nothing in the code starts a request
\* (createQuiz, generateQuizFromTopics) or calls generateQuizAutomatically.
InFlight ==
    \/ \E q \in QuizIds : OrchScrape(q)
    \/ \E q \in QuizIds : \E i \in 1..MaxTopics : OrchEnrich(q, i)
    \/ \E q \in QuizIds : OrchCreateTopic(q)
    \/ \E q \in QuizIds : OrchSetProcessingTopics(q)
    \/ \E q \in QuizIds : OrchCatch(q)
    \/ \E q \in QuizIds : CreateQuizCatch(q)
    \/ GenFinish
    \/ \E q \in QuizIds : AutoFindTopics(q)
    \/ \E q \in QuizIds : AutoGenerate(q)
    \/ \E q \in QuizIds : AutoCommit(q)

\* Scenario "reliable" under fair scheduling of the runs in flight.
FairSpec == InitIn("reliable") /\ [][Next]_vars /\ WF_vars(InFlight)

\* The steps of the run of orchestrateQuiz for quiz q and of the .catch
\* handler createQuiz attached to it.
OrchRun(q) ==
    \/ OrchScrape(q)
    \/ \E i \in 1..MaxTopics : OrchEnrich(q, i)
    \/ OrchCreateTopic(q)
    \/ OrchSetProcessingTopics(q)
    \/ OrchCatch(q)
    \/ CreateQuizCatch(q)

\* Scenario "statusWrites" when every call a run awaits returns or fails: each
\* run takes its next step eventually, whatever the requests do.
FairOrchSpec ==
    /\ InitIn("statusWrites")
    /\ [][Next]_vars
    /\ \A q \in 1..MaxQuizzesIn("statusWrites") : WF_vars(OrchRun(q))

\* Scenario "topics": the topic phase of two quizzes.
InitTopics == InitIn("topics")
NextTopics == TopicPhase
SpecTopics == InitTopics /\ [][NextTopics]_vars

\* The scenarios that apply one function or one handler to an input: nothing
\* is in flight, and the store holds what the handler reads.
InitFunctions ==
    /\ orch = <<>>
    /\ auto = <<>>
    /\ gen = GenIdle("none")
    /\ resp = Undefined
    /\ output = Undefined
    /\ \/ /\ quizzes = <<>>
          /\ topics = <<>>
          /\ \/ scenario = "normalize" /\ input \in NormalizeInputs
             \/ scenario = "split" /\ input \in SplitInputs
             \/ scenario = "merge" /\ input \in MergeInputs
             \/ scenario = "retry" /\ input \in RetryInputs
             \/ scenario = "shuffle" /\ input \in ShuffleInputs
             \/ scenario = "topicQuiz" /\ input \in TopicQuizInputs
             \/ scenario = "flatQuiz" /\ input \in FlatQuizInputs
       \/ /\ scenario = "submit"
          /\ input \in SubmitInputs
          /\ quizzes = input.quiz
          /\ topics = <<>>
       \/ /\ scenario = "request"
          /\ input \in RequestInputs
          /\ quizzes = RequestQuizzes
          /\ topics = RequestTopics
       \/ /\ scenario = "explicit"
          /\ input \in ExplicitInputs
          /\ quizzes = <<input.quiz>>
          /\ topics = <<>>

NextFunctions ==
    \/ ApplySubmit
    \/ ApplyNormalize
    \/ ApplySplit
    \/ ApplyMerge
    \/ ApplyRetry
    \/ ApplyShuffle
    \/ ApplyTopicQuiz
    \/ ApplyExplicit
    \/ ApplyFlatQuiz
    \/ RequestGenerate

SpecFunctions == InitFunctions /\ [][NextFunctions]_vars

\* Scenario "read": the quiz is read at any moment of its life.
InitRead == InitIn("read")
NextRead == Next \/ \E q \in QuizIds : GetQuiz(q)
SpecRead == InitRead /\ [][NextRead]_vars

---------------------------------------------------------------------------
(* Claims *)

\* The status changes the state machine of the quiz allows.
AllowedStatusChanges ==
    { <<"processing", "processing_topics">>, <<"processing", "failed">>,
      <<"processing_topics", "ready">>, <<"processing_topics", "failed">> }

\* C1: every quiz starts in status processing, and every change of a quiz's
\* status is processing -> processing_topics, processing -> failed,
\* processing_topics -> ready or processing_topics -> failed; nothing leaves
\* ready or failed.
C1_StatusChanges ==
    [][\A q \in QuizIds :
         /\ (q \notin DOMAIN quizzes /\ q \in DOMAIN quizzes')
              => quizzes'[q].status = "processing"
         /\ (q \in DOMAIN quizzes /\ quizzes'[q].status # quizzes[q].status)
              => <<quizzes[q].status, quizzes'[q].status>>
                   \in AllowedStatusChanges]_vars

\* C2: when an explicit run and an automatic run overlap on a quiz, a run that
\* finishes after the other has committed (the quiz was not ready with
\* questions when it started and is when it finishes) does not write: the
\* first committed list stays.
C2_LoserSkipsWrite ==
    [][/\ (gen.pc = "generate" /\ gen' # gen /\ ~gen.readyAtStart
           /\ auto[gen.quizId].pc # "idle"
           /\ ReadyWithQuestions(quizzes[gen.quizId]))
          => quizzes'[gen.quizId].questions = quizzes[gen.quizId].questions
       /\ \A q \in QuizIds :
            (q \in DOMAIN quizzes /\ auto[q].pc \in {"generate", "commit"}
             /\ auto'[q] # auto[q] /\ ReadyWithQuestions(quizzes[q]))
            => quizzes'[q].questions = quizzes[q].questions]_vars

\* C3: a generation run, explicit with valid topic ids or automatic, that
\* starts on a quiz that is ready with a non-empty question list leaves the
\* persisted question list unchanged.
C3_RerunKeepsQuestions ==
    [][/\ (gen.pc = "generate" /\ gen' # gen /\ gen.readyAtStart)
          => quizzes'[gen.quizId].questions = quizzes[gen.quizId].questions
       /\ \A q \in QuizIds :
            (q \in DOMAIN quizzes /\ auto[q].readyAtStart)
            => /\ auto[q].pc = "done"
               /\ (auto'[q] # auto[q]
                   => quizzes'[q].questions = quizzes[q].questions)]_vars

\* A persisted question with exactly 4 options and an answerIndex in 0..3.
WellFormedQuestion(question) ==
    /\ Len(question.options) = 4
    /\ question.answerIndex \in 0..3

\* C4: a quiz whose status is ready has between 1 and 10 persisted questions,
\* each with exactly 4 options and an integer answerIndex in 0..3.
C4_ReadyHasBoundedQuestions ==
    \A q \in DOMAIN quizzes :
      quizzes[q].status = "ready"
      => /\ Len(quizzes[q].questions) >= 1
         /\ Len(quizzes[q].questions) <= 10
         /\ \A i \in 1..Len(quizzes[q].questions) :
              WellFormedQuestion(quizzes[q].questions[i])

\* C4 witness: a ready quiz holding exactly 10 questions, committed by an
\* explicit request (for three topics, 12 generated questions) with no
\* automatic run.
C4_Witness ==
    \E q \in DOMAIN quizzes :
      /\ quizzes[q].status = "ready"
      /\ Len(quizzes[q].questions) = 10
      /\ gen.res = "200"
      /\ auto[q].pc = "idle"

\* C5: a quiz whose status is failed has an empty question list and no title.
C5_FailedHasNoQuestions ==
    \A q \in DOMAIN quizzes :
      quizzes[q].status = "failed"
      => quizzes[q].questions = <<>> /\ quizzes[q].title = Undefined

\* C6: after createQuiz, with every external call returning, the quiz's
\* status eventually is ready or failed, although no explicit generation
\* request is made.
C6_EventuallyReadyOrFailed ==
    \A q \in 1..MaxQuizzesIn("reliable") :
      (q \in DOMAIN quizzes)
        ~> (q \in DOMAIN quizzes /\ quizzes[q].status \in {"ready", "failed"})

\* C7: once a run of orchestrateQuiz has caught an error (the page did not
\* load, no topic was found, an insert or the status write failed), it takes
\* no further step of the topic phase: it inserts no topic and never writes
\* processing_topics; it attempts the write of failed, and whether or not that
\* write succeeds, what it throws is the caught error, wrapped.
C7_FailureStopsTopicPhase ==
    /\ [](\A q \in DOMAIN orch :
            /\ orch[q].error # "none"
                 => /\ orch[q].pc \in {"catch", "rejected", "handled"}
                    /\ quizzes[q].status # "processing_topics"
            /\ orch[q].pc \in {"rejected", "handled"}
                 => /\ orch[q].error # "none"
                    /\ orch[q].failedWrite \in {"ok", "error"}
                    /\ orch[q].thrown = Rethrow(orch[q].error))
    /\ [][\A q \in DOMAIN orch :
            /\ orch[q].error # "none"
                 => /\ orch'[q].error = orch[q].error
                    /\ SelectSeq(topics', LAMBDA t : t.quizId = q) = TopicsOf(q)
            /\ (orch[q].pc = "catch" /\ orch'[q].failedWrite = "ok")
                 => quizzes'[q].status = "failed"]_vars

\* C7 witness: an insert failed after a topic was persisted, the write of
\* failed failed too, and the run has ended.
C7_Witness ==
    \E q \in DOMAIN orch :
      /\ orch[q].pc = "handled"
      /\ orch[q].error = "topic.create failed"
      /\ orch[q].failedWrite = "error"
      /\ TopicsOf(q) # <<>>

\* C8: whichever enrichments fail, a run of orchestrateQuiz with no other
\* failure persists exactly one Topic per normalized topic, in order, and
\* writes processing_topics; a topic whose enrichment failed is persisted with
\* its original title and a one-element summary; enrichment never sends the
\* run to its catch block.
C8_EnrichmentFailuresTolerated ==
    /\ [](\A q \in DOMAIN orch :
            orch[q].pc = "done"
            => LET rows == TopicsOf(q)
                   normalized == orch[q].normalizedTopics
                   enriched == orch[q].enrichedTopics
               IN /\ Len(rows) = Len(normalized)
                  /\ \A i \in 1..Len(rows) :
                       /\ rows[i].id = orch[q].createdTopics[i]
                       /\ rows[i].content = normalized[i].content
                       /\ enriched[i][1].enrichFailed
                            => /\ rows[i].title = normalized[i].title
                               /\ Len(enriched[i][1].enrichedSummary) = 1
                               /\ rows[i].summary
                                    = enriched[i][1].enrichedSummary[1])
    /\ [][\A q \in DOMAIN orch :
            /\ orch[q].pc = "enrich" => orch'[q].pc \in {"enrich", "persist"}
            /\ (orch[q].pc # "done" /\ orch'[q].pc = "done")
                 => quizzes'[q].status = "processing_topics"]_vars

\* C8 witness: a run ended with processing_topics written although some
\* enrichments failed and some did not.
C8_Witness ==
    \E q \in DOMAIN orch :
      /\ orch[q].pc = "done"
      /\ quizzes[q].status = "processing_topics"
      /\ \E i, j \in 1..Len(orch[q].enrichedTopics) :
           /\ orch[q].enrichedTopics[i][1].enrichFailed
           /\ ~orch[q].enrichedTopics[j][1].enrichFailed

\* The place of topic id in the batch of its quiz (1-based).
PlaceInBatch(id) ==
    CHOOSE k \in 1..Len(orch[topics[id].quizId].createdTopics) :
      orch[topics[id].quizId].createdTopics[k] = id

\* C9: every persisted Topic with a parentId references a Topic of the same
\* quiz, persisted strictly earlier, of a strictly smaller level: the Topic
\* created for its parentIndex. Parent links therefore never form a cycle.
C9_ParentLinks ==
    \A id \in 1..Len(topics) :
      topics[id].parentId # Undefined
      => LET parent == topics[id].parentId[1]
             batch == orch[topics[id].quizId]
             own == batch.normalizedTopics[PlaceInBatch(id)]
         IN /\ parent \in 1..Len(topics)
            /\ parent < id
            /\ topics[parent].quizId = topics[id].quizId
            /\ topics[parent].level < topics[id].level
            /\ own.parentIndex # Undefined
            /\ batch.createdTopics[own.parentIndex[1] + 1] = parent

\* C9 witness: a Topic whose parent is not the row persisted just before it,
\* a Topic of another quiz lying in between.
C9_Witness ==
    \E id \in 1..Len(topics) :
      /\ topics[id].parentId # Undefined
      /\ \E k \in 1..Len(topics) :
           /\ topics[id].parentId[1] < k
           /\ k < id
           /\ topics[k].quizId # topics[id].quizId

\* The rows that differ from `quiz` at most in the answerIndex of questions.
AnswerVariants(quiz) ==
    { [quiz EXCEPT !.questions =
         [i \in 1..Len(quiz.questions) |->
            [quiz.questions[i] EXCEPT !.answerIndex = answers[i]]]] :
      answers \in [1..Len(quiz.questions) -> 0..3] }

\* No question of the response body has a field answerIndex.
NoAnswerIndex(body) ==
    /\ "answerIndex" \notin DOMAIN body
    /\ body.questions # Undefined
         => \A i \in 1..Len(body.questions[1]) :
              "answerIndex" \notin DOMAIN body.questions[1][i]

\* C10: in every status of the quiz, the response of getQuizById has no
\* answerIndex, and it is the same for stored rows that differ only in the
\* answerIndex of their questions.
C10_AnswersNeverExposed ==
    /\ resp # Undefined => NoAnswerIndex(resp[1])
    /\ \A q \in DOMAIN quizzes :
         \A variant \in AnswerVariants(quizzes[q]) :
           getQuizById(q, variant) = getQuizById(q, quizzes[q])

\* C10 witness: a ready quiz whose questions have different answers was read,
\* and the response lists its questions.
C10_Witness ==
    /\ resp # Undefined
    /\ resp[1].status = "ready"
    /\ resp[1].questions # Undefined
    /\ \E q \in DOMAIN quizzes :
         /\ quizzes[q].status = "ready"
         /\ \E i, j \in 1..Len(quizzes[q].questions) :
              quizzes[q].questions[i].answerIndex
                # quizzes[q].questions[j].answerIndex

\* The number of positions where the answers equal the stored answerIndex.
Matches(questions, answers) ==
    Cardinality({i \in 1..Len(questions) :
                   answers[i] = questions[i].answerIndex})

\* The input is a ready quiz of n >= 1 questions answered by its owner with
\* n values in 0..3.
SubmitValid ==
    /\ scenario = "submit"
    /\ input.quiz # Undefined
    /\ input.owns
    /\ input.quiz[1].status = "ready"
    /\ Len(input.quiz[1].questions) >= 1
    /\ Len(input.answers) = Len(input.quiz[1].questions)
    /\ \A i \in 1..Len(input.answers) : input.answers[i] \in 0..3

\* C11: for a ready quiz of n >= 1 questions and n answers in 0..3,
\* submitQuiz returns correctCount = the number of i with answers[i] =
\* answerIndex[i], score = percentage = round(100 * correctCount / n), and n
\* results in question order, entry i having questionIndex i and correct =
\* (answers[i] = answerIndex[i]).
C11_SubmitScores ==
    (SubmitValid /\ output # Undefined)
    => LET body == output[1]
           questions == input.quiz[1].questions
           n == Len(questions)
           c == Matches(questions, input.answers)
       IN /\ body.code = 200
          /\ body.correctCount = c
          /\ body.score = body.percentage
          /\ 2 * n * body.score <= 200 * c + n
          /\ 200 * c + n < 2 * n * (body.score + 1)
          /\ Len(body.results) = n
          /\ \A i \in 1..n :
               /\ body.results[i].questionIndex = i - 1
               /\ body.results[i].correct
                    = (input.answers[i] = questions[i].answerIndex)

\* C11 witness: answerIndex [0,2,1,3,0] answered [0,2,1,3,1] scores 4 of 5,
\* 80, with the one incorrect entry at index 4.
C11_Witness ==
    /\ SubmitValid
    /\ output # Undefined
    /\ Len(input.quiz[1].questions) = 5
    /\ [i \in 1..5 |-> input.quiz[1].questions[i].answerIndex]
         = <<0, 2, 1, 3, 0>>
    /\ input.answers = <<0, 2, 1, 3, 1>>
    /\ output[1].correctCount = 4
    /\ output[1].score = 80
    /\ output[1].percentage = 80
    /\ {i \in 1..5 : ~output[1].results[i].correct} = {5}
    /\ output[1].results[5].questionIndex = 4

\* normalizeTopics has returned for a page of at least one segment.
Normalized ==
    scenario = "normalize" /\ output # Undefined /\ Len(input) >= 1

\* C12: for a segment list with at least one segment, normalizeTopics returns
\* between 1 and 50 topics, each with content length > 0.
C12_TopicsBoundedAndNonEmpty ==
    Normalized
    => /\ Len(output[1]) >= 1
       /\ Len(output[1]) <= 50
       /\ \A i \in 1..Len(output[1]) :
            getContentLength(output[1][i].content) > 0

\* The earlier topics (1-based places) of a strictly smaller level than the
\* i-th.
SmallerBefore(list, i) ==
    {j \in 1..(i - 1) : list[j].level < list[i].level}

Largest(S) == CHOOSE x \in S : \A y \in S : y <= x

\* C13: in every output of normalizeTopics, the topic at index i has a
\* parentIndex iff an earlier topic has a strictly smaller level, and the
\* parentIndex then is the nearest such earlier index.
C13_NearestSmallerLevel ==
    Normalized
    => \A i \in 1..Len(output[1]) :
         LET earlier == SmallerBefore(output[1], i)
         IN /\ (output[1][i].parentIndex # Undefined) <=> (earlier # {})
            /\ earlier # {}
                 => output[1][i].parentIndex[1] + 1 = Largest(earlier)

\* C13 witness: an output where a topic that is not the first has no parent
\* and another topic's parent is not the topic just before it.
C13_Witness ==
    /\ Normalized
    /\ \E i \in 2..Len(output[1]) : output[1][i].parentIndex = Undefined
    /\ \E i \in 1..Len(output[1]) :
         /\ output[1][i].parentIndex # Undefined
         /\ output[1][i].parentIndex[1] + 1 < i - 1

\* C14: every topic normalizeTopics returns has an estimated token cost of at
\* most 8000.
C14_TokenCostWithinBudget ==
    Normalized
    => \A i \in 1..Len(output[1]) : output[1][i].tokenEstimate <= 8000

\* The number of paragraphs of a list of topics, halving the list.
RECURSIVE ParagraphTotal(_)
ParagraphTotal(list) ==
    IF list = <<>> THEN 0
    ELSE IF Len(list) = 1 THEN Len(list[1].content)
    ELSE ParagraphTotal(SubSeq(list, 1, Len(list) \div 2))
         + ParagraphTotal(SubSeq(list, (Len(list) \div 2) + 1, Len(list)))

\* The segments of the list have one level and pairwise distinct content
\* lengths.
SameLevelDistinctLengths(list) ==
    \A i, j \in 1..Len(list) :
      /\ list[i].level = list[j].level
      /\ i # j => getContentLength(list[i].content)
                    # getContentLength(list[j].content)

\* C16 as stated: for 60 same-level segments with pairwise distinct content
\* lengths, normalizeTopics returns exactly 50 topics and the total number of
\* paragraphs is that of the input.
C16_CapKeepsFifty ==
    (Normalized /\ Len(input) = 60 /\ SameLevelDistinctLengths(input))
    => /\ Len(output[1]) = 50
       /\ ParagraphTotal(output[1]) = ParagraphTotal(input)

\* C16 amended: for more than 50 (so for 60) same-level segments with
\* pairwise distinct content lengths, each of at least 300 characters,
\* normalizeTopics returns exactly 50 topics and the total number of
\* paragraphs is that of the input.
C16_CapKeepsFiftyOfLong ==
    (/\ Normalized
     /\ Len(input) > 50
     /\ SameLevelDistinctLengths(input)
     /\ \A i \in 1..Len(input) : getContentLength(input[i].content) >= 300)
    => /\ Len(output[1]) = 50
       /\ ParagraphTotal(output[1]) = ParagraphTotal(input)

\* C16 witness: 60 same-level segments of distinct lengths of at least 300
\* were normalized to 50 topics, one of which absorbed the overflow.
C16_Witness ==
    /\ Normalized
    /\ Len(input) = 60
    /\ SameLevelDistinctLengths(input)
    /\ \A i \in 1..Len(input) : getContentLength(input[i].content) >= 300
    /\ Len(output[1]) = 50
    /\ Len(output[1][1].content) = 11


\* The paragraphs of a list of topics, in order.
ParagraphsOf(list) == Flat([p \in 1..Len(list) |-> list[p].content])

\* C15: for every single segment whose joined content exceeds 32000
\* characters, splitTopic returns at least 2 parts, every part's token
\* estimate is at most 8000, and the parts' paragraphs, each a whole input
\* paragraph, concatenated in order are the original paragraph list.
C15_SplitWithinBudget ==
    (scenario = "split" /\ output # Undefined
       /\ getContentLength(input.content) > 4 * MaxTopicTokens)
    => /\ Len(output[1]) >= 2
       /\ \A p \in 1..Len(output[1]) :
            getTopicTokenEstimate(output[1][p]) <= MaxTopicTokens
       /\ ParagraphsOf(output[1]) = input.content

\* The content lengths of a list of segments.
ContentLengths(list) ==
    [i \in 1..Len(list) |-> getContentLength(list[i].content)]

\* C17 as stated: for four level-1 segments with content lengths
\* [10, 400, 5, 5] the merge pass yields exactly 2 segments, the first holding
\* the paragraphs of inputs 1, 3 and 4 and the second only those of input 2.
C17_FirstAbsorbsLater ==
    (scenario = "merge" /\ output # Undefined
       /\ ContentLengths(input) = <<10, 400, 5, 5>>)
    => /\ Len(output[1]) = 2
       /\ output[1][1].content
            = input[1].content \o input[3].content \o input[4].content
       /\ output[1][2].content = input[2].content

\* C17 amended: for four level-1 segments with content lengths
\* [10, 400, 5, 5] the merge pass yields exactly 2 segments, the first holding
\* only the paragraphs of input 1 and the second those of inputs 2, 3 and 4 in
\* order (a short segment is absorbed by the segment kept just before it).
C17_PreviousAbsorbs ==
    (scenario = "merge" /\ output # Undefined
       /\ ContentLengths(input) = <<10, 400, 5, 5>>)
    => /\ Len(output[1]) = 2
       /\ output[1][1].content = input[1].content
       /\ output[1][2].content
            = input[2].content \o input[3].content \o input[4].content

\* C17 witness: the merge pass has run on the four segments of lengths
\* [10, 400, 5, 5] and left two segments, the second of three paragraphs.
C17_Witness ==
    /\ scenario = "merge"
    /\ output # Undefined
    /\ ContentLengths(input) = <<10, 400, 5, 5>>
    /\ \A i \in 1..Len(input) : input[i].level = 1
    /\ Len(output[1]) = 2
    /\ Len(output[1][2].content) = 3


\* The invocations among the first maxRetries + 1 that succeed.
SuccessesWithin(outcomes, maxRetries) ==
    { k \in 1..(maxRetries + 1) : outcomes[k].ok }

\* C18: for every maxRetries >= 0 retryWithBackoff invokes fn at most
\* maxRetries + 1 times (4 with the default), stops at the first successful
\* invocation and returns its value, and when all maxRetries + 1 invocations
\* fail it raises the error of the last one.
C18_RetryStopsAndRaisesLast ==
    (scenario = "retry" /\ output # Undefined)
    => LET r == output[1]
           m == input.maxRetries
           successes == SuccessesWithin(input.outcomes, m)
       IN /\ r.calls <= m + 1
          /\ m = DefaultMaxRetries => r.calls <= 4
          /\ IF successes # {}
             THEN LET first == CHOOSE k \in successes :
                                 \A j \in successes : k <= j
                  IN r.ok /\ r.calls = first
                     /\ r.value = input.outcomes[first].value
             ELSE ~r.ok /\ r.calls = m + 1
                  /\ r.error = input.outcomes[m + 1].error

\* C18 witness: with the default of 3 retries all 4 invocations failed and the
\* error of the 4th was raised, though a 5th invocation would have succeeded.
C18_Witness ==
    /\ scenario = "retry"
    /\ output # Undefined
    /\ input.maxRetries = DefaultMaxRetries
    /\ input.outcomes[DefaultMaxRetries + 2].ok
    /\ ~output[1].ok
    /\ output[1].calls = DefaultMaxRetries + 1
    /\ output[1].error = DefaultMaxRetries + 1

\* How often x occurs in list s.
Occurrences(s, x) == Cardinality({ i \in 1..Len(s) : s[i] = x })

\* C19: when the per-topic results flatten to a list L of n >= 1 questions,
\* the committed list has length min(10, n) and no question occurs in it more
\* often than in L.
C19_CommittedIsCappedPartOfMerged ==
    (scenario = "shuffle" /\ output # Undefined)
    => LET L == Flat(input)
       IN /\ Len(L) >= 1
          /\ Len(output[1]) = IF Len(L) < 10 THEN Len(L) ELSE 10
          /\ \A x \in RangeOf(output[1]) :
               Occurrences(output[1], x) <= Occurrences(L, x)

\* C19 witness: three tasks returned 11 questions, the only one of its kind
\* last; 10 were committed, that question first.
C19_Witness ==
    /\ scenario = "shuffle"
    /\ output # Undefined
    /\ Len(Flat(input)) = 11
    /\ Occurrences(Flat(input), Flat(input)[11]) = 1
    /\ Len(output[1]) = 10
    /\ output[1][1] = Flat(input)[11]

\* C20: every list generateQuizForTopic returns has 2 to 4 questions, each
\* with non-empty question text, exactly 4 non-empty options and an integer
\* answerIndex in 0..3.
C20_ReturnedQuestionsValid ==
    (scenario = "topicQuiz" /\ output # Undefined /\ output[1].ok)
    => LET list == output[1].value
       IN /\ Len(list) \in 2..4
          /\ \A i \in 1..Len(list) :
               /\ StrLen(list[i].question) > 0
               /\ Len(list[i].options) = 4
               /\ \A o \in 1..4 : StrLen(list[i].options[o]) > 0
               /\ list[i].answerIndex \in 0..3


\* The questions of the selected topics whose generation succeeded.
SucceededQuestions(results) ==
    Flat([i \in 1..Len(results) |->
            IF results[i].ok THEN results[i].value ELSE <<>>])

\* The run committed a non-empty list drawn from the topics that succeeded,
\* with status ready.
CommittedFromSucceeded ==
    /\ output[1].res = "200"
    /\ quizzes[1].status = "ready"
    /\ Len(quizzes[1].questions) >= 1
    /\ \A x \in RangeOf(quizzes[1].questions) :
         Occurrences(quizzes[1].questions, x)
           <= Occurrences(SucceededQuestions(input.results), x)

\* The run reported failure and left the quiz as it was.
FailedKeepingQuiz == output[1].res = "500" /\ quizzes[1] = input.quiz

\* C21 as stated: in explicit generation a topic whose generation fails
\* contributes no question; if at least one selected topic succeeds the run
\* commits a question list with status ready, and if every selected topic
\* fails the run reports failure and leaves the quiz unchanged.
C21_FailedTopicsContributeNothing ==
    (scenario = "explicit" /\ output # Undefined)
    => IF \E i \in 1..Len(input.results) : input.results[i].ok
       THEN CommittedFromSucceeded
       ELSE FailedKeepingQuiz

\* C21 amended: if at least one selected topic succeeds and the write of the
\* list succeeds the run commits a list drawn from the succeeded topics with
\* status ready; if every selected topic fails, or the write fails, the run
\* reports failure and leaves the quiz unchanged.
C21_FailedTopicsContributeNothingUnlessWriteFails ==
    (scenario = "explicit" /\ output # Undefined)
    => IF (\E i \in 1..Len(input.results) : input.results[i].ok)
          /\ output[1].write # "error"
       THEN CommittedFromSucceeded /\ output[1].write = "ok"
       ELSE FailedKeepingQuiz

\* C21 witness: of two selected topics one failed and one gave two questions;
\* the run committed those two with status ready.
C21_Witness ==
    /\ scenario = "explicit"
    /\ output # Undefined
    /\ Len(input.results) = 2
    /\ ~input.results[1].ok
    /\ input.results[2].ok
    /\ output[1].res = "200"
    /\ quizzes[1].status = "ready"
    /\ Len(quizzes[1].questions) = 2


\* C22: the wait after failed attempt k (0-based, k < maxRetries) is
\* baseDelayMs * 2^k (1000, 2000, 4000 with the defaults), and there is no
\* wait after a successful attempt or after the final failed attempt: the
\* waits are one fewer than the invocations.
C22_BackoffDoubles ==
    (scenario = "retry" /\ output # Undefined)
    => LET r == output[1]
       IN /\ Len(r.delays) = r.calls - 1
          /\ \A k \in 0..(Len(r.delays) - 1) :
               r.delays[k + 1] = input.baseDelayMs * 2^k
          /\ (input.maxRetries = 3 /\ input.baseDelayMs = 1000 /\ r.calls = 4)
             => r.delays = <<1000, 2000, 4000>>

\* C22 witness: with the defaults the fourth invocation succeeded after waits
\* of 1000, 2000 and 4000.
C22_Witness ==
    /\ scenario = "retry"
    /\ output # Undefined
    /\ input.maxRetries = DefaultMaxRetries
    /\ input.baseDelayMs = DefaultBaseDelayMs
    /\ output[1].ok
    /\ output[1].calls = 4
    /\ output[1].delays = <<1000, 2000, 4000>>


\* The answerIndex of the claim's conversion: a numeric string (digits, with
\* or without surrounding whitespace) becomes its integer, null or missing
\* becomes 0, anything else is kept.
CoercedAnswerIndex(j) ==
    IF j.type = "null" THEN JsonNumber(0, 1)
    ELSE IF j.type = "string" /\ Len(Trim(j.text)) = 1
            /\ Trim(j.text)[1].k = "int"
    THEN JsonNumber(Trim(j.text)[1].n, 1)
    ELSE j

\* The outputs the claim accepts: a non-empty title, 5 to 10 questions, each
\* with a text, 4 non-empty string options and, after the conversion, an
\* integer answerIndex in 0..3.
AcceptableFlatQuiz(response) ==
    /\ response.kind = "json"
    /\ response.parsed.title.type = "string"
    /\ StrLen(Trim(response.parsed.title.text)) > 0
    /\ Len(response.parsed.questions) \in 5..10
    /\ \A i \in 1..Len(response.parsed.questions) :
         LET q == response.parsed.questions[i]
             a == CoercedAnswerIndex(q.answerIndex)
         IN /\ q.question.type = "string"
            /\ q.question.text # <<>>
            /\ Len(q.options) = 4
            /\ \A o \in 1..4 : /\ q.options[o].type = "string"
                               /\ StrLen(Trim(q.options[o].text)) > 0
            /\ a.type = "number"
            /\ a.num % a.den = 0
            /\ a.num \div a.den \in 0..3

\* C23: generateQuiz accepts a completion output exactly when, after the
\* conversion of numeric-string and null/missing answerIndex values, it has a
\* non-empty title, 5 to 10 questions, 4 non-empty string options per question
\* and an integer answerIndex in 0..3; every other output fails the attempt
\* and a new completion call is made.
C23_FlatQuizAcceptedIffValid ==
    (scenario = "flatQuiz" /\ output # Undefined)
    => IF AcceptableFlatQuiz(input[1])
       THEN output[1].ok /\ output[1].calls = 1
       ELSE output[1].calls >= 2


\* Topic id `id` is a Topic of quiz q.
BelongsTo(id, q) ==
    \E t \in 1..Len(topics) : topics[t].id = id /\ topics[t].quizId = q

\* C24: an explicit generation request is rejected for topic membership, with
\* no completion call and no change to the quiz, if and only if at least one
\* requested topic id is not a Topic of that quiz.
C24_RejectedIffForeignTopic ==
    (scenario = "request" /\ gen # GenIdle("none"))
    => /\ gen.res = "400" <=> \E i \in 1..Len(input) : ~BelongsTo(input[i], 1)
       /\ gen.res = "400" => gen.pc = "idle" /\ quizzes = RequestQuizzes


\* C25: in orchestrateQuiz no Topic is persisted before every enrichment task
\* of the batch has settled, topics are persisted one at a time in normalized
\* order, and processing_topics is written only after the last topic has been
\* persisted: once the run has written it, the quiz has as many Topics as
\* normalized topics.
C25_TopicsAfterJoinStatusLast ==
    /\ [](\A q \in DOMAIN orch :
            LET persisted == TopicsOf(q)
                batch == orch[q]
            IN /\ persisted # <<>>
                    => \A j \in 1..Len(batch.enrichedTopics) :
                         batch.enrichedTopics[j] # Undefined
               /\ Len(persisted) <= Len(batch.normalizedTopics)
               /\ \A k \in 1..Len(persisted) :
                    /\ persisted[k].content = batch.normalizedTopics[k].content
                    /\ persisted[k].level = batch.normalizedTopics[k].level
               /\ batch.pc = "done"
                    => Len(persisted) = Len(batch.normalizedTopics))
    /\ [][\A q \in DOMAIN orch :
            LET before == TopicsOf(q)
                after == SelectSeq(topics', LAMBDA t : t.quizId = q)
            IN /\ Len(after) <= Len(before) + 1
               /\ SubSeq(after, 1, Len(before)) = before
               /\ (quizzes'[q].status = "processing_topics"
                   /\ quizzes[q].status # "processing_topics")
                    => /\ Len(before) = Len(orch[q].normalizedTopics)
                       /\ after = before]_vars

\* C25 witness: a run has written processing_topics after persisting all its
\* MaxSegments topics, one of them enriched by fallback.
C25_Witness ==
    \E q \in DOMAIN orch :
      /\ orch[q].pc = "done"
      /\ quizzes[q].status = "processing_topics"
      /\ Len(TopicsOf(q)) = MaxSegments
      /\ \E j \in 1..MaxSegments : orch[q].enrichedTopics[j][1].enrichFailed
      /\ \E j \in 1..MaxSegments : ~orch[q].enrichedTopics[j][1].enrichFailed


\* ceil((title length + joined content length) / 4), the paragraphs joined by
\* single spaces.
CeilQuarterOfTitleAndContent(topic) ==
    (StrLen(topic.title) + getContentLength(topic.content) + 3) \div 4

\* C26: the token estimate stored as tokenEstimate and used by the split pass
\* is ceil((title length + joined content length) / 4); a segment is split iff
\* this value exceeds 8000.
C26_TokenEstimateIsCeilQuarter ==
    /\ (scenario = "normalize" /\ output # Undefined)
       => \A i \in 1..Len(output[1]) :
            output[1][i].tokenEstimate = CeilQuarterOfTitleAndContent(output[1][i])
    /\ (scenario = "split" /\ output # Undefined)
       => (Len(output[1]) >= 2
           <=> CeilQuarterOfTitleAndContent(input) > MaxTopicTokens)


\* The quiz of a submit request exists and the request is one the claim says
\* is refused: the quiz is not ready, the number of answers differs from the
\* number of questions, or some answer is not in 0..3.
SubmitRefusable ==
    /\ input.quiz # Undefined
    /\ \/ input.quiz[1].status # "ready"
       \/ Len(input.answers) # Len(input.quiz[1].questions)
       \/ \E i \in 1..Len(input.answers) : input.answers[i] \notin 0..3

\* C27: submitQuiz returns an error and no score whenever the quiz is not
\* ready, the number of answers differs from the number of questions, or some
\* answer is not in 0..3; whether it succeeds or not, the stored quiz (status,
\* title, questions) is what it was.
C27_SubmitRefusesAndWritesNothing ==
    scenario = "submit"
    => /\ quizzes = input.quiz
       /\ (output # Undefined /\ SubmitRefusable)
          => /\ output[1].code >= 400
             /\ "error" \in DOMAIN output[1]
             /\ "score" \notin DOMAIN output[1]

\* C27 witness: a ready quiz of two questions answered with two values, one of
\* them 4, was refused with 400 and is stored as before.
C27_Witness ==
    /\ scenario = "submit"
    /\ output # Undefined
    /\ input.quiz # Undefined
    /\ input.owns
    /\ input.quiz[1].status = "ready"
    /\ Len(input.quiz[1].questions) = 2
    /\ Len(input.answers) = 2
    /\ input.answers[2] = 4
    /\ output[1].code = 400
    /\ quizzes = input.quiz


\* C28: normalizeTopics preserves document order, the cap pass included: of
\* two output topics the one whose paragraphs come earlier in the input (its
\* first paragraph has the smaller number) is at the smaller index.
C28_DocumentOrderKept ==
    (scenario = "normalize" /\ output # Undefined)
    => \A p \in 1..Len(output[1]) : \A q \in (p + 1)..Len(output[1]) :
         (output[1][p].content # <<>> /\ output[1][q].content # <<>>)
         => output[1][p].content[1].n < output[1][q].content[1].n


\* C29: whenever a run of orchestrateQuiz has ended with the quiz status
\* failed, no Topic of that quiz is in the store: the topic phase persists all
\* of its normalized topics (and reaches processing_topics) or none.
C29_FailedRunLeavesNoTopic ==
    \A q \in DOMAIN orch :
      /\ (orch[q].pc \in {"rejected", "handled"} /\ quizzes[q].status = "failed")
           => TopicsOf(q) = <<>>
      /\ orch[q].pc \in {"done", "rejected", "handled"}
           => \/ TopicsOf(q) = <<>>
              \/ /\ Len(TopicsOf(q)) = Len(orch[q].normalizedTopics)
                 /\ orch[q].pc = "done"


\* The run of orchestrateQuiz for quiz q has terminated: it returned, or it
\* threw.
OrchEnded(q) == q \in DOMAIN orch /\ orch[q].pc \in {"done", "rejected", "handled"}

\* C30: when every external call returns or fails and the writes of the
\* status succeed, every run of orchestrateQuiz terminates, and at the step it
\* terminates the status of its quiz has been written as processing_topics
\* (the run returns) or failed (the run throws); the quiz of a terminated run
\* is never in status processing.
C30_RunTerminatesWithStatusWritten ==
    /\ \A q \in 1..MaxQuizzesIn("statusWrites") :
         (q \in DOMAIN orch) ~> OrchEnded(q)
    /\ [](\A q \in DOMAIN orch :
            OrchEnded(q) => quizzes[q].status # "processing")
    /\ [][\A q \in DOMAIN orch :
            (~OrchEnded(q) /\ orch'[q].pc \in {"done", "rejected"})
            => quizzes'[q].status
                 = IF orch'[q].pc = "done" THEN "processing_topics"
                   ELSE "failed"]_vars

\* C30 witness: with the status writes succeeding, an insert of a topic failed
\* after another had succeeded, and the run has terminated with the quiz
\* failed.
C30_Witness ==
    /\ scenario = "statusWrites"
    /\ \E q \in DOMAIN orch :
         /\ orch[q].pc = "handled"
         /\ orch[q].error = "topic.create failed"
         /\ TopicsOf(q) # <<>>
         /\ quizzes[q].status = "failed"

====
